---------------------------- MODULE Spec2Model ----------------------------
(***************************************************************************)
(* State-machine model of the asset-intelligence metadata store            *)
(* (src/database.py) and of the orchestrator code that writes to it        *)
(* (src/asset_scanner.py).                                                 *)
(*                                                                         *)
(* The scan queue is modelled with one connection per call, as             *)
(* AssetDatabase.get_connection opens one: get_next_scan_item is two       *)
(* steps, the SELECT (run in autocommit, no lock kept once the row is      *)
(* fetched) and the UPDATE + commit, and other calls may run between them. *)
(*                                                                         *)
(* Conventions: SQL NULL / Python None is the string "NULL" where the       *)
(* value is text; a Python value that is a number or None is a record      *)
(* Num(n) or None; numbers stand for the source's floats wherever the      *)
(* source uses whole values; a timestamp column is "NULL" or "set" (the    *)
(* value of datetime.now() is not modelled); created_at is a logical       *)
(* second, of which only the order and the equality with other rows'       *)
(* matter.                                                                 *)
(***************************************************************************)
EXTENDS Integers, Sequences, FiniteSets, TLC

VARIABLES
    packs,      \* asset_packs rows: id -> row
    packSeq,    \* AUTOINCREMENT counter of asset_packs
    assets,     \* assets rows: id -> row
    assetSeq,   \* AUTOINCREMENT counter of assets
    assetProps, \* asset_properties rows (a set; the row id is not modelled)
    assetTags,  \* asset_tags rows (a set; the row id is not modelled)
    given,      \* per asset id: the dimensions create_asset_optimized was called with
    queue,      \* scan_queue rows: id -> row
    queueSeq,   \* AUTOINCREMENT counter of scan_queue (last id given out)
    pc,         \* per worker: where it is inside get_next_scan_item
    item,       \* per worker: the row id fetched by the SELECT (0: none yet)
    held,       \* per worker: the row get_next_scan_item returned to it and
                \* it has not reported on yet (0: none)
    lastOp,     \* the last store call: its name, its argument and its result
    disk,       \* pack directory -> its .blend files, sorted, each with what
                \* the extraction subprocess gives for it
    scan,       \* the scan_asset_pack_robust call under way: its position,
                \* arguments and counters, and the summary it returned
    blend,      \* the .blend file the extraction script has open: its
                \* collections and its objects
    data,       \* what the extraction script wrote, and how far
                \* _store_extracted_data has come with it
    scene,      \* the scene build under way: the .blend files on disk, the
                \* call, the groups, the libraries opened, the data loaded
                \* and the objects linked to the scene
    work,       \* _process_blend_file under way on one file: the strategy,
                \* the worker invocations made, the temporary files
    ui,         \* the scan operator: scan_progress_queue, the timer, the
                \* scanning threads and the properties the panel shows
    cache       \* the AssetCacheManager: its fields, and the clock

storeVars == <<packs, packSeq, assets, assetSeq, assetProps, assetTags, given>>
queueVars == <<queue, queueSeq, pc, item, held>>
scanVars == <<disk, scan, blend, data>>
vars == <<packs, packSeq, assets, assetSeq, assetProps, assetTags, given,
          queue, queueSeq, pc, item, held, lastOp, disk, scan, blend, data,
          scene, work, ui, cache>>

NULL == "NULL"

(***************************************************************************)
(* Bounds of the model.                                                    *)
(***************************************************************************)
Workers == {"w1", "w2"}
QueuePaths == {"a.blend", "b.blend"}
Priorities == {5, 9}
\* failItem may be called on any row any number of times; the model stops
\* after this many failItem calls in all.
MaxFailures == 4

\* scan_queue.max_retries INTEGER DEFAULT 3
DefaultMaxRetries == 3

QueueIds == DOMAIN queue

(***************************************************************************)
(* Python values and keyword arguments.                                    *)
(***************************************************************************)
Num(n) == [t |-> "num", v |-> n]
None == [t |-> "none", v |-> 0]

\* isinstance(x, (int, float))
IsNumber(x) == x.t = "num"

\* A length is held as a whole number of halves of a Blender unit, so that
\* 0.5 and 1.5 are values: the length 1.0 is PerUnit.
PerUnit == 2

\* properties.get(key, default) on the **properties of a call
Get(props, key, default) == IF key \in DOMAIN props THEN props[key] ELSE default

(***************************************************************************)
(* asset_packs: create_asset_pack                                          *)
(***************************************************************************)
PackIds == DOMAIN packs

PackNamed(name) == \E id \in PackIds : packs[id].name = name

NewPackRow(name, path, version, description) ==
    [name |-> name, path |-> path, version |-> version,
     description |-> description]

\* INSERT OR REPLACE in place of INSERT: the row of the name is written anew.
InsertOrReplacePack(name, path, version, description) ==
    IF PackNamed(name)
    THEN [id \in PackIds |->
            IF packs[id].name = name
            THEN NewPackRow(name, path, version, description)
            ELSE packs[id]]
    ELSE [id \in PackIds \cup {packSeq + 1} |->
            IF id = packSeq + 1
            THEN NewPackRow(name, path, version, description)
            ELSE packs[id]]

\* INSERT INTO asset_packs: name is UNIQUE, so a name already present raises
\* sqlite3.IntegrityError, which get_connection rolls back and re-raises.
InsertPack(name, path, version, description) ==
    IF PackNamed(name)
    THEN packs
    ELSE [id \in PackIds \cup {packSeq + 1} |->
            IF id = packSeq + 1
            THEN NewPackRow(name, path, version, description)
            ELSE packs[id]]

create_asset_pack(name, path, version, description) ==
    /\ packs' = InsertPack(name, path, version, description)
    /\ packSeq' = IF PackNamed(name) THEN packSeq ELSE packSeq + 1
    /\ lastOp' = [op |-> "createPack",
                  arg |-> NewPackRow(name, path, version, description),
                  result |-> IF PackNamed(name) THEN "IntegrityError"
                             ELSE "ok"]
    /\ UNCHANGED <<assets, assetSeq, assetProps, assetTags, given>>

(***************************************************************************)
(* assets: create_asset_optimized                                          *)
(***************************************************************************)
AssetIds == DOMAIN assets

NoDimensions == <<Num(0), Num(0), Num(0)>>

\* dimensions = properties.get('dimensions', [0.0, 0.0, 0.0])
\* width, height, depth = dimensions[:3] if len(dimensions) >= 3 else (0.0, 0.0, 0.0)
FirstThree(props) ==
    LET dimensions == Get(props, "dimensions", NoDimensions)
    IN  IF Len(dimensions) >= 3 THEN SubSeq(dimensions, 1, 3) ELSE NoDimensions

\* volume = width * height * depth raises TypeError when a factor is None.
CanMultiply(whd) == \A i \in 1..3 : IsNumber(whd[i])

\* volume = width * height
VolumeOfTwo(whd) == whd[1].v * whd[2].v

Volume(whd) == whd[1].v * whd[2].v * whd[3].v

\* The row the INSERT writes: the columns it names, and is_active by default.
NewAssetRow(name, pack_id, category, blend_file_path, props) ==
    LET whd == FirstThree(props)
    IN  [ name                |-> name,
          pack_id             |-> pack_id,
          category            |-> category,
          subcategory         |-> Get(props, "subcategory", NULL),
          file_path           |-> Get(props, "file_path", ""),
          collection_name     |-> Get(props, "collection_name", NULL),
          blend_file_path     |-> blend_file_path,
          polygon_count       |-> Get(props, "polygon_count", 0),
          vertex_count        |-> Get(props, "vertex_count", 0),
          material_count      |-> Get(props, "material_count", 0),
          object_count        |-> Get(props, "object_count", 1),
          width               |-> whd[1].v,
          height              |-> whd[2].v,
          depth               |-> whd[3].v,
          volume              |-> Volume(whd),
          complexity_score    |-> Get(props, "complexity_score", 0),
          quality_tier        |-> Get(props, "quality_tier", "medium"),
          estimated_load_time |-> Get(props, "estimated_load_time", 0),
          memory_estimate     |-> Get(props, "memory_estimate", 0),
          primary_style       |-> Get(props, "primary_style", NULL),
          size_category       |-> Get(props, "size_category", "medium"),
          scan_status         |-> "complete",
          last_scanned        |-> "set",
          is_active           |-> 1 ]

\* UNIQUE(name, pack_id, collection_name): a NULL collection_name is equal
\* to nothing, so only rows with a collection name can collide.
AssetKeyTaken(name, pack_id, collection_name) ==
    /\ collection_name # NULL
    /\ \E id \in AssetIds :
          /\ assets[id].name = name
          /\ assets[id].pack_id = pack_id
          /\ assets[id].collection_name = collection_name

\* What the call does: "TypeError" before any SQL, "IntegrityError" from the
\* INSERT (pack_id REFERENCES asset_packs; the UNIQUE key), or the new row.
CreateAssetResult(name, pack_id, category, blend_file_path, props) ==
    IF ~ CanMultiply(FirstThree(props)) THEN "TypeError"
    ELSE IF pack_id \notin PackIds THEN "IntegrityError"
    ELSE IF AssetKeyTaken(name, pack_id, Get(props, "collection_name", NULL))
         THEN "IntegrityError"
    ELSE "ok"

create_asset_optimized(name, pack_id, category, blend_file_path, props) ==
    LET result == CreateAssetResult(name, pack_id, category, blend_file_path, props)
        id == assetSeq + 1
    IN  IF result = "ok"
        THEN /\ assets' = [i \in AssetIds \cup {id} |->
                             IF i = id
                             THEN NewAssetRow(name, pack_id, category,
                                              blend_file_path, props)
                             ELSE assets[i]]
             /\ assetSeq' = id
             /\ given' = [i \in AssetIds \cup {id} |->
                             IF i = id THEN Get(props, "dimensions", NoDimensions)
                             ELSE given[i]]
        ELSE UNCHANGED <<assets, assetSeq, given>>

(***************************************************************************)
(* assets: fast_asset_search                                               *)
(***************************************************************************)
\* `if category:` on text: neither None nor the empty string
TruthyText(x) == x # NULL /\ x # ""

\* `if max_polygons:` on a number or None: neither None nor zero
TruthyNumber(x) == IsNumber(x) /\ x.v # 0

\* The WHERE clause the call builds: is_active = 1 and one condition per
\* argument that is truthy.
Selected(row, f) ==
    /\ row.is_active = 1
    /\ TruthyText(f.category) => row.category = f.category
    /\ TruthyText(f.style) => row.primary_style = f.style
    /\ TruthyText(f.quality_tier) => row.quality_tier = f.quality_tier
    /\ TruthyText(f.size_category) => row.size_category = f.size_category
    /\ TruthyNumber(f.max_complexity) => row.complexity_score <= f.max_complexity.v
    /\ TruthyNumber(f.max_polygons) => row.polygon_count <= f.max_polygons.v
    /\ TruthyNumber(f.pack_id) => row.pack_id = f.pack_id.v

\* ORDER BY complexity_score, polygon_count
InOrder(a, b) ==
    \/ assets[a].complexity_score < assets[b].complexity_score
    \/ /\ assets[a].complexity_score = assets[b].complexity_score
       /\ assets[a].polygon_count <= assets[b].polygon_count

\* The orders the selected rows may come in (SQL leaves open the order of
\* rows equal in both keys).
Orderings(ids) ==
    LET n == Cardinality(ids)
    IN  { order \in [1..n -> ids] :
            /\ \A i, j \in 1..n : i # j => order[i] # order[j]
            /\ \A i, j \in 1..n : i < j => InOrder(order[i], order[j]) }

\* LIMIT ?: a negative limit is no limit
Limit(order, limit) ==
    IF limit < 0 \/ limit >= Len(order) THEN order ELSE SubSeq(order, 1, limit)

\* x or 0.0
OrZero(x) == IF x = 0 THEN 0 ELSE x

\* asset['dimensions'] = [width, depth, height]
SwappedDimensions(row) == <<OrZero(row.width), OrZero(row.depth), OrZero(row.height)>>

\* asset['dimensions'] = [width, height, depth]
ReconstructedDimensions(row) ==
    <<OrZero(row.width), OrZero(row.height), OrZero(row.depth)>>

\* dict(row) with its id, and the reconstructed dimensions
ResultRow(id) ==
    [id |-> id, row |-> assets[id], dimensions |-> ReconstructedDimensions(assets[id])]

SearchResults(f) ==
    LET ids == {id \in AssetIds : Selected(assets[id], f)}
    IN  { [i \in DOMAIN Limit(order, f.limit) |-> ResultRow(order[i])] :
            order \in Orderings(ids) }

fast_asset_search(f) ==
    /\ \E result \in SearchResults(f) :
          lastOp' = [op |-> "search", arg |-> f, result |-> result]
    /\ UNCHANGED storeVars

(***************************************************************************)
(* The orchestrator's writer: _create_database_asset_improved              *)
(***************************************************************************)
\* if dim < 0 or dim >= 10000
OutOfRangeInclusive(dim) == dim.v < 0 \/ dim.v >= 10000 * PerUnit

\* if not isinstance(dim, (int, float)) or dim < 0 or dim > 10000  # Max 10km
OutOfRange(dim) == dim.v < 0 \/ dim.v > 10000 * PerUnit

Corrected(dim) ==
    IF ~ IsNumber(dim) \/ OutOfRange(dim) THEN Num(0) ELSE dim

\* if not isinstance(dimensions, list) or len(dimensions) < 3: [0.0, 0.0, 0.0]
\* (every dimensions value of the model is a list), then the loop over
\* width, height, depth.
CorrectedDimensions(asset_data) ==
    LET dimensions == Get(asset_data, "dimensions", NoDimensions)
        three == IF Len(dimensions) < 3 THEN NoDimensions ELSE dimensions
    IN  <<Corrected(three[1]), Corrected(three[2]), Corrected(three[3])>>

Max3(a, b, c) ==
    IF a >= b /\ a >= c THEN a ELSE IF b >= c THEN b ELSE c

\* elif max_dimension <= 2.0: return 'medium'
size_category_edge_below(width, height, depth) ==
    LET max_dimension == Max3(width, height, depth)
    IN  IF 2 * max_dimension < PerUnit THEN "small"
        ELSE IF max_dimension <= 2 * PerUnit THEN "medium"
        ELSE IF max_dimension < 10 * PerUnit THEN "large"
        ELSE "huge"

\* _determine_size_category: max_dimension < 0.5 / < 2.0 / < 10.0
determine_size_category(width, height, depth) ==
    LET max_dimension == Max3(width, height, depth)
    IN  IF 2 * max_dimension < PerUnit THEN "small"
        ELSE IF max_dimension < 2 * PerUnit THEN "medium"
        ELSE IF max_dimension < 10 * PerUnit THEN "large"
        ELSE "huge"

MaxOf(a, b) == IF a >= b THEN a ELSE b

\* The keyword arguments of the create_asset_optimized call.
\* estimated_load_time = max(0.1, polygon_count / 10000) is kept in units of
\* 1/10000 s, memory_estimate = max(1.0, polygon_count / 1000) in 1/1000 MB.
ScannedProperties(asset_data, relative_path) ==
    LET whd == CorrectedDimensions(asset_data)
        polygon_count == Get(asset_data, "polygon_count", 0)
        kind == Get(asset_data, "type", NULL)
    IN  [ subcategory         |-> NULL,
          collection_name     |-> IF kind = "collection" THEN asset_data.name
                                  ELSE NULL,
          file_path           |-> relative_path,
          polygon_count       |-> polygon_count,
          vertex_count        |-> Get(asset_data, "vertex_count", 0),
          material_count      |-> 0,
          object_count        |-> Get(asset_data, "object_count", 1),
          dimensions          |-> whd,
          complexity_score    |-> Get(asset_data, "complexity_score", 0),
          quality_tier        |-> Get(asset_data, "quality_tier", "medium"),
          estimated_load_time |-> MaxOf(1000, polygon_count),
          memory_estimate     |-> MaxOf(1000, polygon_count),
          primary_style       |-> NULL,
          size_category       |-> determine_size_category(whd[1].v, whd[2].v,
                                                          whd[3].v),
          object_name         |-> IF kind = "object" THEN asset_data.name
                                  ELSE NULL ]

\* INSERT OR REPLACE INTO asset_properties: bbox_min and bbox_max, both
\* defaulting to [0.0, 0.0, 0.0] (a non-empty list, so the branch is taken).
BoundingBoxRows(asset_id, asset_data) ==
    { [asset_id |-> asset_id, property_type |-> "technical",
       property_key |-> key,
       property_value |-> Get(asset_data, key, <<0, 0, 0>>),
       data_type |-> "json"] : key \in {"bbox_min", "bbox_max"} }

\* INSERT OR IGNORE INTO asset_tags, if asset_data.get('category')
CategoryTagRows(asset_id, asset_data) ==
    IF Get(asset_data, "category", "") = "" THEN {}
    ELSE { [asset_id |-> asset_id, tag_name |-> asset_data.category,
            tag_category |-> "category", confidence |-> 1] }

create_database_asset_improved(asset_data, pack_id, relative_path, blend_file_path) ==
    LET category == Get(asset_data, "category", "props")
        props == ScannedProperties(asset_data, relative_path)
        result == CreateAssetResult(asset_data.name, pack_id, category,
                                    blend_file_path, props)
        asset_id == assetSeq + 1
    IN  /\ create_asset_optimized(asset_data.name, pack_id, category,
                                  blend_file_path, props)
        /\ IF result = "ok"
           THEN /\ assetProps' = assetProps \cup BoundingBoxRows(asset_id, asset_data)
                /\ assetTags' = assetTags \cup CategoryTagRows(asset_id, asset_data)
           ELSE UNCHANGED <<assetProps, assetTags>>
        /\ lastOp' = [op |-> "storeAsset", arg |-> asset_data,
                      result |-> IF result = "ok" THEN "ok" ELSE result]
        /\ UNCHANGED <<packs, packSeq>>

(***************************************************************************)
(* scan_queue: INSERT OR IGNORE ... (blend_file_path, pack_id, priority)   *)
(***************************************************************************)
NewQueueRow(path, pack_id, priority, now) ==
    [ blend_file_path |-> path,
      pack_id         |-> pack_id,
      priority        |-> priority,
      status          |-> "pending",
      error_message   |-> NULL,
      retry_count     |-> 0,
      max_retries     |-> DefaultMaxRetries,
      assigned_worker |-> NULL,
      started_at      |-> NULL,
      completed_at    |-> NULL,
      created_at      |-> now ]

PathQueued(path) == \E id \in QueueIds : queue[id].blend_file_path = path

\* INSERT OR REPLACE in place of INSERT OR IGNORE: the row of a path already
\* present is written anew.
InsertOrReplaceQueue(path, pack_id, priority, now) ==
    IF PathQueued(path)
    THEN [id \in QueueIds |->
            IF queue[id].blend_file_path = path
            THEN NewQueueRow(path, pack_id, priority, now)
            ELSE queue[id]]
    ELSE [id \in QueueIds \cup {queueSeq + 1} |->
            IF id = queueSeq + 1 THEN NewQueueRow(path, pack_id, priority, now)
            ELSE queue[id]]

\* The row set after INSERT OR IGNORE: a path already present (UNIQUE) makes
\* the insert a no-op.
InsertOrIgnoreQueue(path, pack_id, priority, now) ==
    IF PathQueued(path)
    THEN queue
    ELSE [id \in QueueIds \cup {queueSeq + 1} |->
            IF id = queueSeq + 1 THEN NewQueueRow(path, pack_id, priority, now)
            ELSE queue[id]]

\* created_at DEFAULT CURRENT_TIMESTAMP has a resolution of one second: the
\* call runs in the second of the newest row (wait = 0) or in a later one.
LatestCreated ==
    IF QueueIds = {} THEN 0
    ELSE CHOOSE t \in {queue[id].created_at : id \in QueueIds} :
            \A id \in QueueIds : queue[id].created_at <= t

add_to_scan_queue(path, pack_id, priority, wait) ==
    /\ QueueIds = {} => wait = 1
    /\ queue' = InsertOrIgnoreQueue(path, pack_id, priority, LatestCreated + wait)
    /\ queueSeq' = IF PathQueued(path) THEN queueSeq ELSE queueSeq + 1
    /\ lastOp' = [op |-> "enqueue", arg |-> path, result |-> NULL]
    /\ UNCHANGED <<pc, item, held>>

(***************************************************************************)
(* get_next_scan_item                                                      *)
(***************************************************************************)
\* WHERE status = 'pending' AND retry_count < max_retries
Selectable(id) ==
    /\ queue[id].status = "pending"
    /\ queue[id].retry_count < queue[id].max_retries

\* ORDER BY priority ASC in place of DESC.
FirstInOrderAscending(id, ids) ==
    \A other \in ids :
        \/ queue[id].priority < queue[other].priority
        \/ /\ queue[id].priority = queue[other].priority
           /\ queue[id].created_at <= queue[other].created_at

\* ORDER BY priority DESC, created_at ASC LIMIT 1: the rows that may come
\* first (rows equal in both keys come in an order SQL leaves open).
FirstInOrder(id, ids) ==
    \A other \in ids :
        \/ queue[id].priority > queue[other].priority
        \/ /\ queue[id].priority = queue[other].priority
           /\ queue[id].created_at <= queue[other].created_at

NextScanCandidates ==
    LET ids == {id \in QueueIds : Selectable(id)}
    IN  {id \in ids : FirstInOrder(id, ids)}

\* The SELECT and fetchone(): with no row the call returns None at once.
SelectNext(w) ==
    /\ pc[w] = "idle"
    /\ IF NextScanCandidates = {}
       THEN /\ held' = [held EXCEPT ![w] = 0]
            /\ lastOp' = [op |-> "dequeue", arg |-> NULL, result |-> "None"]
            /\ UNCHANGED <<pc, item>>
       ELSE /\ \E id \in NextScanCandidates :
                  item' = [item EXCEPT ![w] = id]
            /\ pc' = [pc EXCEPT ![w] = "selected"]
            /\ held' = [held EXCEPT ![w] = 0]
            /\ lastOp' = [op |-> "select", arg |-> NULL, result |-> NULL]
    /\ UNCHANGED <<queue, queueSeq>>

\* UPDATE scan_queue SET status = 'processing', assigned_worker = ?,
\* started_at = ? WHERE id = ?
MarkProcessing(id, w) ==
    [i \in QueueIds |->
        IF i = id
        THEN [queue[i] EXCEPT !.status = "processing",
                              !.assigned_worker = w,
                              !.started_at = "set"]
        ELSE queue[i]]

\* The UPDATE, the commit and the return of item_dict.
MarkAndReturn(w) ==
    /\ pc[w] = "selected"
    /\ queue' = MarkProcessing(item[w], w)
    /\ pc' = [pc EXCEPT ![w] = "idle"]
    /\ held' = [held EXCEPT ![w] = item[w]]
    /\ item' = [item EXCEPT ![w] = 0]
    /\ lastOp' = [op |-> "dequeue", arg |-> NULL, result |-> "item"]
    /\ UNCHANGED queueSeq

(***************************************************************************)
(* update_scan_status                                                      *)
(***************************************************************************)
\* status = 'failed': SET status, error_message, retry_count + 1, completed_at
FailedRow(row, message) ==
    [row EXCEPT !.status = "failed",
                !.error_message = message,
                !.retry_count = @ + 1,
                !.completed_at = "set"]

\* any other status: SET status, completed_at
StatusRow(row, status) ==
    [row EXCEPT !.status = status, !.completed_at = "set"]

update_scan_status(id, status, message) ==
    [i \in QueueIds |->
        IF i # id THEN queue[i]
        ELSE IF status = "failed" THEN FailedRow(queue[i], message)
        ELSE StatusRow(queue[i], status)]

\* A worker that reports on the row it holds lets go of it.
RECURSIVE SumRetries(_)
SumRetries(ids) ==
    IF ids = {} THEN 0
    ELSE LET id == CHOOSE i \in ids : TRUE
         IN  queue[id].retry_count + SumRetries(ids \ {id})

Release(w, id) == [held EXCEPT ![w] = IF @ = id THEN 0 ELSE @]

completeItem(w, id) ==
    /\ pc[w] = "idle"
    /\ id \in QueueIds
    /\ queue' = update_scan_status(id, "complete", NULL)
    /\ held' = Release(w, id)
    /\ lastOp' = [op |-> "complete", arg |-> NULL, result |-> NULL]
    /\ UNCHANGED <<queueSeq, pc, item>>

failItem(w, id, message) ==
    /\ pc[w] = "idle"
    /\ id \in QueueIds
    /\ SumRetries(QueueIds) < MaxFailures
    /\ queue' = update_scan_status(id, "failed", message)
    /\ held' = Release(w, id)
    /\ lastOp' = [op |-> "fail", arg |-> NULL, result |-> NULL]
    /\ UNCHANGED <<queueSeq, pc, item>>

(***************************************************************************)
(* scan_asset_pack_robust: the directories it walks and its position       *)
(***************************************************************************)
ScanPaths == {"/packs/a", "/packs/b"}

\* No pack directory holds a .blend file.
NoDisk == [pack_path \in ScanPaths |-> <<>>]

\* total_assets of the last summary returned for a directory (-1: none yet)
NoTotals == [pack_path \in ScanPaths |-> -1]

NoSummary ==
    [files_queued |-> 0, files_processed |-> 0, files_failed |-> 0,
     total_assets |-> 0]

\* No file is being processed.
NoWork ==
    [ pc          |-> "idle",  \* "idle", "ready" (to invoke a worker),
                               \* "running", "storing", "done"
      file        |-> NULL,    \* blend_file_path
      size        |-> 0,       \* os.path.getsize(blend_file_path)
      mode        |-> NULL,    \* the mode of the invocation at hand
      collections |-> <<>>,    \* what the quick scan enumerated
      group       |-> 1,       \* index of coll_name in collections
      attempt     |-> 0,       \* attempt of _extract_with_retry
      validated   |-> FALSE,   \* the program at hand passed validation
      temp        |-> {},      \* the temporary files that exist
      pending     |-> <<>>,    \* the assets _store_extracted_data has left
      created     |-> 0,       \* assets_created of the invocation at hand
      total       |-> 0,       \* total_assets
      failed      |-> <<>>,    \* failed_collections
      log         |-> <<>>,    \* the worker invocations, as they returned
      result      |-> NULL ]   \* what _process_blend_file returned or raised

\* No scan was started from the panel: the queue is empty, no timer is
\* registered, the properties have their defaults.
NoUi ==
    [ available   |-> TRUE,    \* RobustAssetScanner was imported
      queue       |-> <<>>,    \* scan_progress_queue
      timer       |-> 0,       \* current_scan_timer: the scan whose
                               \* _check_scan_progress is registered, 0: None
      threads     |-> <<>>,    \* per scan started: where its thread is
      scan_status |-> "Not Started",
      total_assets_in_db |-> 0,
      applied     |-> <<>>,    \* the updates the timer of the last scan
                               \* started has applied, in order
      ended       |-> <<>> ]   \* per scan started: the update its timer
                               \* ended on, <<>> while it has not ended

\* AssetCacheManager.__init__, at time 0
NoCache ==
    [ cache_data      |-> <<>>,    \* cache key -> entry
      cache_timestamp |-> 0,
      cache_valid     |-> FALSE,
      now             |-> 0 ]      \* time.time(), in seconds

\* No scene build was begun.
NoScene ==
    [ pc         |-> "idle",   \* "idle", "loading" (in the loop), "done"
      files      |-> <<>>,     \* path of a .blend file on disk -> what it holds
      call       |-> <<>>,     \* selected_assets, locations, rotations
      groups     |-> <<>>,     \* assets_by_file, in the order of its keys
      file       |-> 1,        \* index of the group the loop is at
      builds     |-> 0,        \* the calls of the builder so far
      opened     |-> <<>>,     \* the files bpy.data.libraries.load was called on
      requested  |-> <<>>,     \* what this call asked the libraries to load
      loaded     |-> [collections |-> {}, objects |-> {}, meshes |-> {}],
      placed     |-> <<>> ]    \* the objects linked to the scene, in order

\* No file is open, and nothing was extracted.
NoBlend == [collections |-> <<>>, objects |-> <<>>]
NoData == [pc |-> "none", collections |-> <<>>, objects |-> <<>>, asset |-> 1]

\* No scan_asset_pack_robust call has been made.
IdleScan ==
    [ pc        |-> "idle",    \* "idle", "files" (in the loop), "done"
      pack_path |-> NULL,
      force     |-> FALSE,
      pack_id   |-> 0,
      files     |-> <<>>,      \* blend_files
      file      |-> 1,         \* index of the file the loop is at
      asset     |-> 1,         \* index of the asset _store_extracted_data is at
      processed |-> 0,
      failed    |-> 0,
      attempted |-> <<>>,      \* the files _process_blend_file was called on
      existed   |-> FALSE,     \* the pack was there when the call began
      previous  |-> -1,        \* total_assets of the last scan of the directory
      totals    |-> NoTotals,
      calls     |-> 0,         \* calls made so far
      summary   |-> NoSummary ]

(***************************************************************************)
(* The scan queue under any sequence of calls.                             *)
(***************************************************************************)
\* The store after construction and one create_asset_pack call (a queue row
\* needs its pack: pack_id REFERENCES asset_packs, with foreign_keys = ON).
OnePack ==
    (1 :> [name |-> "Pack", path |-> "/packs/a", version |-> NULL,
           description |-> NULL])

Init ==
    /\ packs = OnePack
    /\ packSeq = 1
    /\ assets = <<>>
    /\ assetSeq = 0
    /\ assetProps = {}
    /\ assetTags = {}
    /\ given = <<>>
    /\ queue = <<>>
    /\ queueSeq = 0
    /\ pc = [w \in Workers |-> "idle"]
    /\ item = [w \in Workers |-> 0]
    /\ held = [w \in Workers |-> 0]
    /\ lastOp = [op |-> "init", arg |-> NULL, result |-> NULL]
    /\ disk = NoDisk
    /\ scan = IdleScan
    /\ blend = NoBlend
    /\ data = NoData
    /\ scene = NoScene
    /\ work = NoWork
    /\ ui = NoUi
    /\ cache = NoCache

Enqueue ==
    /\ \E path \in QueuePaths, pack_id \in DOMAIN packs,
          priority \in Priorities, wait \in {0, 1} :
           add_to_scan_queue(path, pack_id, priority, wait)
    /\ UNCHANGED <<storeVars, scanVars, scene, work, ui, cache>>

Dequeue ==
    /\ \E w \in Workers : SelectNext(w) \/ MarkAndReturn(w)
    /\ UNCHANGED <<storeVars, scanVars, scene, work, ui, cache>>

Complete ==
    /\ \E w \in Workers, id \in QueueIds : completeItem(w, id)
    /\ UNCHANGED <<storeVars, scanVars, scene, work, ui, cache>>

Fail ==
    /\ \E w \in Workers, id \in QueueIds : failItem(w, id, "error")
    /\ UNCHANGED <<storeVars, scanVars, scene, work, ui, cache>>

Next == Enqueue \/ Dequeue \/ Complete \/ Fail

Spec == Init /\ [][Next]_vars

(***************************************************************************)
(* The store under any sequence of create_asset_pack,                      *)
(* create_asset_optimized and fast_asset_search calls.                     *)
(***************************************************************************)
\* The assets table holds at most this many rows.
MaxAssets == 2

PackNames == {"Pack", "Other"}
PackPaths == {"/packs/a", "/packs/b"}
CallPackIds == {1, 2}

\* The create_asset_optimized calls: the one of quick_database_test, and
\* calls that give the columns a search filters on.
AssetCalls ==
    { [name |-> "Test Asset", category |-> "props",
       props |-> [polygon_count |-> 1000, complexity_score |-> 5]],
      [name |-> "Car", category |-> "vehicles",
       props |-> [polygon_count |-> 80, complexity_score |-> 1,
                  quality_tier |-> "low", size_category |-> "small",
                  primary_style |-> "cyberpunk"]],
      [name |-> "Crate", category |-> "props",
       props |-> [polygon_count |-> 1000, complexity_score |-> 1,
                  quality_tier |-> "low"]],
      [name |-> "Plane", category |-> "props", props |-> <<>>] }

NoFilter ==
    [category |-> NULL, style |-> NULL, quality_tier |-> NULL,
     size_category |-> NULL, max_complexity |-> None, max_polygons |-> None,
     pack_id |-> None, limit |-> 100]

\* The fast_asset_search calls: no filter, each filter alone, some pairs,
\* each with the default limit and with limit 1.
SearchCalls ==
    LET filters ==
          { NoFilter,
            [NoFilter EXCEPT !.category = "props"],
            [NoFilter EXCEPT !.category = "vehicles"],
            [NoFilter EXCEPT !.style = "cyberpunk"],
            [NoFilter EXCEPT !.quality_tier = "low"],
            [NoFilter EXCEPT !.size_category = "small"],
            [NoFilter EXCEPT !.max_complexity = Num(0)],
            [NoFilter EXCEPT !.max_complexity = Num(1)],
            [NoFilter EXCEPT !.max_polygons = Num(0)],
            [NoFilter EXCEPT !.max_polygons = Num(80)],
            [NoFilter EXCEPT !.pack_id = Num(1)],
            [NoFilter EXCEPT !.category = "props", !.max_polygons = Num(80)],
            [NoFilter EXCEPT !.quality_tier = "low", !.pack_id = Num(2)] }
    IN  { [f EXCEPT !.limit = limit] : f \in filters, limit \in {1, 100} }

StoreInit ==
    /\ packs = <<>>
    /\ packSeq = 0
    /\ assets = <<>>
    /\ assetSeq = 0
    /\ assetProps = {}
    /\ assetTags = {}
    /\ given = <<>>
    /\ queue = <<>>
    /\ queueSeq = 0
    /\ pc = [w \in Workers |-> "idle"]
    /\ item = [w \in Workers |-> 0]
    /\ held = [w \in Workers |-> 0]
    /\ lastOp = [op |-> "init", arg |-> NULL, result |-> NULL]
    /\ disk = NoDisk
    /\ scan = IdleScan
    /\ blend = NoBlend
    /\ data = NoData
    /\ scene = NoScene
    /\ work = NoWork
    /\ ui = NoUi
    /\ cache = NoCache

CreatePack ==
    /\ \E name \in PackNames, path \in PackPaths :
          create_asset_pack(name, path, NULL, NULL)
    /\ UNCHANGED <<queueVars, scanVars, scene, work, ui, cache>>

\* A direct create_asset_optimized call.
CreateAssetCall(call, pack_id, blend_file_path, bound) ==
    LET result == CreateAssetResult(call.name, pack_id, call.category,
                                    blend_file_path, call.props)
    IN  /\ Cardinality(AssetIds) < bound
        /\ create_asset_optimized(call.name, pack_id, call.category,
                                  blend_file_path, call.props)
        /\ lastOp' = [op |-> "createAsset", arg |-> call, result |-> result]
        /\ UNCHANGED <<packs, packSeq, assetProps, assetTags>>

CreateAsset ==
    /\ \E call \in AssetCalls, pack_id \in CallPackIds :
          CreateAssetCall(call, pack_id, "/packs/a/file.blend", MaxAssets)
    /\ UNCHANGED <<queueVars, scanVars, scene, work, ui, cache>>

Search ==
    /\ \E f \in SearchCalls : fast_asset_search(f)
    /\ UNCHANGED <<queueVars, scanVars, scene, work, ui, cache>>

StoreNext == CreatePack \/ CreateAsset \/ Search

StoreSpec == StoreInit /\ [][StoreNext]_vars

(***************************************************************************)
(* Dimensions: direct create_asset_optimized calls and the orchestrator's  *)
(* _create_database_asset_improved, each with every list of dimensions,    *)
(* and the search that reads the rows back.                                *)
(***************************************************************************)
\* The assets table holds at most this many rows.
MaxDimensionAssets == 1

DimensionValues ==
    {Num(-1), Num(2), Num(10000 * PerUnit), Num(10000 * PerUnit + 1), None}

\* The product of three components has to fit the 32-bit integers of the
\* model checker, so at least one component of a list is a small one.
Small(dim) == ~IsNumber(dim) \/ (dim.v > -100 /\ dim.v < 100)

DimensionLists ==
    { d \in [1..3 -> DimensionValues] : \E i \in 1..3 : Small(d[i]) }
        \cup { <<Num(2)>>, <<Num(2), Num(3), Num(5), Num(7)>> }

CreateAssetWithDimensions ==
    /\ \E dimensions \in DimensionLists :
          CreateAssetCall([name |-> "Crate", category |-> "props",
                           props |-> [dimensions |-> dimensions]],
                          1, "/packs/a/crate.blend", MaxDimensionAssets)
    /\ UNCHANGED <<queueVars, scanVars, scene, work, ui, cache>>

\* One entry of file_info['collections'] or file_info['objects'].
ExtractedAsset(kind, dimensions) ==
    [name |-> "Crate", type |-> kind, category |-> "props",
     polygon_count |-> 80, vertex_count |-> 120, complexity_score |-> 1,
     quality_tier |-> "low", object_count |-> 1, dimensions |-> dimensions]

StoreExtractedAsset ==
    /\ \E kind \in {"collection", "object"}, dimensions \in DimensionLists :
          LET asset_data == ExtractedAsset(kind, dimensions)
              result == CreateAssetResult(
                            asset_data.name, 1, asset_data.category,
                            "/packs/a/crate.blend",
                            ScannedProperties(asset_data, "crate.blend"))
          IN  /\ result = "ok" => Cardinality(AssetIds) < MaxDimensionAssets
              /\ create_database_asset_improved(asset_data, 1, "crate.blend",
                                                "/packs/a/crate.blend")
    /\ UNCHANGED <<queueVars, scanVars, scene, work, ui, cache>>

ReadBack ==
    /\ fast_asset_search(NoFilter)
    /\ UNCHANGED <<queueVars, scanVars, scene, work, ui, cache>>

DimensionNext == CreateAssetWithDimensions \/ StoreExtractedAsset \/ ReadBack

DimensionSpec == Init /\ [][DimensionNext]_vars

(***************************************************************************)
(* scan_asset_pack_robust, called again and again on directories of        *)
(* .blend files, some of which the extraction fails on.                    *)
(***************************************************************************)
\* The model stops after this many scan_asset_pack_robust calls.
MaxScans == 3

\* One entry of file_info['collections'] or file_info['objects'].
ScannedAsset(name, kind) ==
    [ExtractedAsset(kind, <<Num(2), Num(2), Num(2)>>) EXCEPT !.name = name]

\* A .blend file: its path, its path relative to the pack directory, whether
\* the extraction subprocess succeeds on it, and what it extracts.
HouseFile(ok) ==
    [path |-> "/packs/a/a.blend", relative |-> "a.blend", ok |-> ok,
     collections |-> <<ScannedAsset("House", "collection")>>,
     objects |-> <<ScannedAsset("Crate", "object")>>]

BarrelFile(ok) ==
    [path |-> "/packs/a/b.blend", relative |-> "b.blend", ok |-> ok,
     collections |-> <<>>,
     objects |-> <<ScannedAsset("Barrel", "object")>>]

TreeFile(ok) ==
    [path |-> "/packs/b/c.blend", relative |-> "c.blend", ok |-> ok,
     collections |-> <<ScannedAsset("Tree", "collection")>>,
     objects |-> <<>>]

\* What the directories may hold, as _find_blend_files returns it (sorted).
Disks ==
    LET first == {<<>>} \cup {<<HouseFile(ok)>> : ok \in BOOLEAN}
                    \cup {<<BarrelFile(ok)>> : ok \in BOOLEAN}
                    \cup {<<HouseFile(ok), BarrelFile(other)>> :
                             ok \in BOOLEAN, other \in BOOLEAN}
        second == {<<>>} \cup {<<TreeFile(ok)>> : ok \in BOOLEAN}
    IN  { [pack_path \in ScanPaths |->
             IF pack_path = "/packs/a" THEN a ELSE b] :
          a \in first, b \in second }

\* os.path.basename(pack_path.rstrip('/\\'))
Basename(pack_path) == IF pack_path = "/packs/a" THEN "a" ELSE "b"

\* get_asset_pack(name=pack_name)
PackIdNamed(name) == CHOOSE id \in PackIds : packs[id].name = name

PackAssets(pack_id) == {id \in AssetIds : assets[id].pack_id = pack_id}

\* _clear_pack_assets keeps the rows of the pack as well
KeepPackAssets(pack_id) == assets

\* DELETE FROM assets WHERE pack_id = ?
ClearPackAssets(pack_id) ==
    [id \in AssetIds \ PackAssets(pack_id) |-> assets[id]]

\* fast_asset_search(pack_id=pack_id, limit=10000), counted
TotalAssets(pack_id) ==
    LET f == [NoFilter EXCEPT !.pack_id = Num(pack_id), !.limit = 10000]
        n == Cardinality({id \in AssetIds : Selected(assets[id], f)})
    IN  IF n < f.limit THEN n ELSE f.limit

Summary(pack_id, processed, failed) ==
    [files_queued |-> processed + failed, files_processed |-> processed,
     files_failed |-> failed, total_assets |-> TotalAssets(pack_id)]

\* The call up to its loop: the path check, _get_or_create_pack (with
\* _clear_pack_assets on a forced rescan) and _find_blend_files; with no
\* file found it returns the summary at once.
StartScan(pack_path, force) ==
    LET pack_name == Basename(pack_path)
        existed == PackNamed(pack_name)
        pack_id == IF existed THEN PackIdNamed(pack_name) ELSE packSeq + 1
        cleared == existed /\ force
        files == disk[pack_path]
        call == [pack_path |-> pack_path, force |-> force]
    IN  /\ scan.pc \in {"idle", "done"}
        /\ scan.calls < MaxScans
        /\ packs' = IF existed THEN packs
                    ELSE InsertPack(pack_name, pack_path, "1.0", "Scanned")
        /\ packSeq' = IF existed THEN packSeq ELSE packSeq + 1
        /\ assets' = IF cleared THEN ClearPackAssets(pack_id) ELSE assets
        /\ given' = IF cleared
                    THEN [id \in AssetIds \ PackAssets(pack_id) |-> given[id]]
                    ELSE given
        /\ assetProps' = IF cleared
                         THEN {row \in assetProps :
                                 row.asset_id \notin PackAssets(pack_id)}
                         ELSE assetProps
        /\ assetTags' = IF cleared
                        THEN {row \in assetTags :
                                row.asset_id \notin PackAssets(pack_id)}
                        ELSE assetTags
        /\ queue' = IF cleared
                    THEN [id \in {i \in QueueIds : queue[i].pack_id # pack_id}
                            |-> queue[id]]
                    ELSE queue
        /\ scan' = [scan EXCEPT
                      !.pc = IF files = <<>> THEN "done" ELSE "files",
                      !.pack_path = pack_path,
                      !.force = force,
                      !.pack_id = pack_id,
                      !.files = files,
                      !.file = 1,
                      !.asset = 1,
                      !.processed = 0,
                      !.failed = 0,
                      !.attempted = <<>>,
                      !.existed = existed,
                      !.previous = scan.totals[pack_path],
                      !.totals = IF files = <<>>
                                 THEN [scan.totals EXCEPT ![pack_path] =
                                         IF cleared THEN 0
                                         ELSE TotalAssets(pack_id)]
                                 ELSE scan.totals,
                      !.calls = scan.calls + 1,
                      !.summary = IF files = <<>>
                                  THEN [NoSummary EXCEPT !.total_assets =
                                          IF cleared THEN 0
                                          ELSE TotalAssets(pack_id)]
                                  ELSE NoSummary]
        /\ lastOp' = [op |-> "scan", arg |-> call,
                      result |-> IF files = <<>> THEN "summary" ELSE "started"]
        /\ UNCHANGED <<assetSeq, queueSeq, pc, item, held, disk, blend, data, scene, work, ui, cache>>

\* if not os.path.exists(pack_path): raise FileNotFoundError
ScanMissingPath(pack_path) ==
    /\ scan.pc \in {"idle", "done"}
    /\ pack_path \notin DOMAIN disk
    /\ lastOp' = [op |-> "scan",
                  arg |-> [pack_path |-> pack_path, force |-> FALSE],
                  result |-> "FileNotFoundError"]
    /\ UNCHANGED <<storeVars, queueVars, scanVars, scene, work, ui, cache>>

\* except Exception: failed += 1, and the loop forgets to count
SkipFailure(failed) == failed

\* except Exception: failed += 1
CountFailure(failed) == failed + 1

\* _store_extracted_data goes through the collections, then the objects
FileAssets(file) == file.collections \o file.objects

\* One turn of `for i, blend_file in enumerate(blend_files)`, taken in the
\* steps of _process_blend_file: the extraction fails (failed += 1), or
\* _store_extracted_data stores the next asset of the file (an exception of
\* _create_database_asset_improved is logged and the next asset is taken),
\* or, the assets stored, the file is counted (processed += 1).
ScanFile ==
    /\ scan.pc = "files"
    /\ scan.file <= Len(scan.files)
    /\ LET file == scan.files[scan.file]
       IN  IF ~ file.ok
           THEN /\ scan' = [scan EXCEPT
                              !.failed = CountFailure(scan.failed),
                              !.file = scan.file + 1,
                              !.attempted = Append(scan.attempted, file.path)]
                /\ lastOp' = [op |-> "file", arg |-> file.path,
                              result |-> "failed"]
                /\ UNCHANGED storeVars
           ELSE IF scan.asset <= Len(FileAssets(file))
           THEN /\ create_database_asset_improved(
                      FileAssets(file)[scan.asset], scan.pack_id,
                      file.relative, file.path)
                /\ scan' = [scan EXCEPT !.asset = scan.asset + 1]
           ELSE /\ scan' = [scan EXCEPT
                              !.processed = scan.processed + 1,
                              !.file = scan.file + 1,
                              !.asset = 1,
                              !.attempted = Append(scan.attempted, file.path)]
                /\ lastOp' = [op |-> "file", arg |-> file.path,
                              result |-> "processed"]
                /\ UNCHANGED storeVars
    /\ UNCHANGED <<queueVars, disk, blend, data, scene, work, ui, cache>>

\* return self._create_summary(pack_id, processed, failed, start_time)
Summarise ==
    /\ scan.pc = "files"
    /\ scan.file > Len(scan.files)
    /\ LET summary == Summary(scan.pack_id, scan.processed, scan.failed)
       IN  /\ scan' = [scan EXCEPT
                         !.pc = "done",
                         !.summary = summary,
                         !.totals = [scan.totals EXCEPT ![scan.pack_path] =
                                       summary.total_assets]]
           /\ lastOp' = [op |-> "summary", arg |-> scan.pack_path,
                         result |-> summary]
    /\ UNCHANGED <<storeVars, queueVars, disk, blend, data, scene, work, ui, cache>>

ScanInit ==
    /\ packs = <<>>
    /\ packSeq = 0
    /\ assets = <<>>
    /\ assetSeq = 0
    /\ assetProps = {}
    /\ assetTags = {}
    /\ given = <<>>
    /\ queue = <<>>
    /\ queueSeq = 0
    /\ pc = [w \in Workers |-> "idle"]
    /\ item = [w \in Workers |-> 0]
    /\ held = [w \in Workers |-> 0]
    /\ lastOp = [op |-> "init", arg |-> NULL, result |-> NULL]
    /\ disk \in Disks
    /\ scan = IdleScan
    /\ blend = NoBlend
    /\ data = NoData
    /\ scene = NoScene
    /\ work = NoWork
    /\ ui = NoUi
    /\ cache = NoCache

ScanPack ==
    \E pack_path \in ScanPaths \cup {"/packs/none"}, force \in BOOLEAN :
        IF pack_path \in DOMAIN disk
        THEN StartScan(pack_path, force)
        ELSE ScanMissingPath(pack_path)

\* add_to_scan_queue of a file of a scanned pack, between two scans
QueueFile ==
    /\ scan.pc \in {"idle", "done"}
    /\ \E pack_id \in PackIds :
          add_to_scan_queue(IF pack_id = 1 THEN "a.blend" ELSE "b.blend",
                            pack_id, 5, 1)
    /\ UNCHANGED <<storeVars, scanVars, scene, work, ui, cache>>

ScanNext == ScanPack \/ ScanFile \/ Summarise \/ QueueFile

ScanSpec == ScanInit /\ [][ScanNext]_vars

(***************************************************************************)
(* The extraction script: the common functions and main() of full_file     *)
(* mode, on the collections and objects of the open file.                  *)
(*   collection: [name, children (names), objects (names of the objects    *)
(*                linked to it)]                                           *)
(*   object:     [name, type, polygon_count, vertex_count, bbox_min,       *)
(*                dimensions]                                              *)
(* bpy.data.collections and bpy.data.objects are the two sequences.        *)
(***************************************************************************)
get_polygon_count(obj) == IF obj.type = "MESH" THEN obj.polygon_count ELSE 0

get_vertex_count(obj) == IF obj.type = "MESH" THEN obj.vertex_count ELSE 0

\* max(obj.dimensions) < 0.0001 is, in halves of a unit, a size of 0
is_visual_object(obj) ==
    /\ obj.type = "MESH"
    /\ get_polygon_count(obj) # 0
    /\ ~ (Max3(obj.dimensions[1], obj.dimensions[2], obj.dimensions[3]) <= 0)

NoBounds == [bbox_min |-> <<0, 0, 0>>, bbox_max |-> <<0, 0, 0>>,
             dimensions |-> <<0, 0, 0>>]

\* The world-space bounding box of the vertices, [0, 0, 0] three times for
\* an object without vertices or without size.
calculate_object_bounds(obj) ==
    IF obj.type # "MESH" \/ obj.vertex_count = 0 THEN NoBounds
    ELSE IF Max3(obj.dimensions[1], obj.dimensions[2], obj.dimensions[3]) > 0
    THEN [bbox_min |-> obj.bbox_min,
          bbox_max |-> [i \in 1..3 |-> obj.bbox_min[i] + obj.dimensions[i]],
          dimensions |-> obj.dimensions]
    ELSE NoBounds

\* The collections of the file that are children of the collection,
\* and the visual objects linked to it.
ChildrenOf(collection) ==
    SelectSeq(blend.collections, LAMBDA c : c.name \in collection.children)

VisualObjectsOf(collection) ==
    SelectSeq(blend.objects,
              LAMBDA obj : obj.name \in collection.objects
                              /\ is_visual_object(obj))

RECURSIVE get_all_collection_objects(_), ObjectsOfAll(_)
\* The visual objects of the collection, then those of each child collection
\* in turn; an object linked to both comes twice.
get_all_collection_objects(collection) ==
    VisualObjectsOf(collection) \o ObjectsOfAll(ChildrenOf(collection))

ObjectsOfAll(collections) ==
    IF collections = <<>> THEN <<>>
    ELSE get_all_collection_objects(Head(collections))
            \o ObjectsOfAll(Tail(collections))

RECURSIVE SumOf(_, _)
\* sum(f(obj) for obj in objects), for f one of the two counters
SumOf(objects, counter) ==
    IF objects = <<>> THEN 0
    ELSE (IF counter = "polygons" THEN get_polygon_count(Head(objects))
          ELSE get_vertex_count(Head(objects)))
         + SumOf(Tail(objects), counter)

MinOfSet(S) == CHOOSE x \in S : \A y \in S : x <= y
MaxOfSet(S) == CHOOSE x \in S : \A y \in S : x >= y

\* The box around the boxes of the objects that have a size.
calculate_collection_bounds(visual_objects) ==
    LET boxes == { calculate_object_bounds(visual_objects[i]) :
                     i \in DOMAIN visual_objects }
        valid == { b \in boxes :
                     Max3(b.dimensions[1], b.dimensions[2], b.dimensions[3]) > 0 }
        bbox_min == [i \in 1..3 |-> MinOfSet({b.bbox_min[i] : b \in valid})]
        bbox_max == [i \in 1..3 |-> MaxOfSet({b.bbox_max[i] : b \in valid})]
    IN  IF valid = {} THEN NoBounds
        ELSE [bbox_min |-> bbox_min, bbox_max |-> bbox_max,
              dimensions |-> [i \in 1..3 |-> bbox_max[i] - bbox_min[i]]]

\* The names of the model that hold one of the skip prefixes or keywords
\* ('ctrl' is a prefix of 'ctrl_rig').
should_skip_object_name(name) == name \in {"", "ctrl_rig"}

\* The names of the model that hold one of 'temp', 'hidden', 'backup',
\* 'deleted', 'old'.
should_skip_collection(collection) == collection.name \in {"", "Backup"}

\* No other collection has it among its children.
is_parent_collection(collection) ==
    \A i \in DOMAIN blend.collections :
        blend.collections[i] = collection
            \/ collection.name \notin blend.collections[i].children

\* classify_name(name, CATEGORY_PATTERNS) or 'props': no keyword of the
\* patterns is part of a name of the model.
CategoryOf(name) == "props"

\* if polygon_count <= 500: return 'low'
determine_quality_edge_below(polygon_count) ==
    IF polygon_count <= 500 THEN "low"
    ELSE IF polygon_count < 2000 THEN "medium"
    ELSE IF polygon_count < 10000 THEN "high"
    ELSE "ultra"

determine_quality(polygon_count) ==
    IF polygon_count < 500 THEN "low"
    ELSE IF polygon_count < 2000 THEN "medium"
    ELSE IF polygon_count < 10000 THEN "high"
    ELSE "ultra"

\* object_multiplier = 1.0 + (object_count - 1) * 0.1, in tenths
uncapped_multiplier(object_count) == 10 + (object_count - 1)

\* object_multiplier = min(1.0 + (object_count - 1) * 0.1, 2.0), in tenths
object_multiplier(object_count) ==
    IF 10 + (object_count - 1) < 20 THEN 10 + (object_count - 1) ELSE 20

\* calculate_complexity, the score in tenths
calculate_complexity(polygon_count, object_count) ==
    LET poly_score == IF polygon_count < 100 THEN 1
                      ELSE IF polygon_count < 500 THEN 3
                      ELSE IF polygon_count < 2000 THEN 5
                      ELSE IF polygon_count < 10000 THEN 7
                      ELSE 9
        score == poly_score * object_multiplier(object_count)
    IN  IF score < 100 THEN score ELSE 100

AsNumbers(triple) == [i \in 1..3 |-> Num(triple[i])]

\* main(): the test a collection passes to become an asset.
CapturedCollection(collection) ==
    LET visual_objects == get_all_collection_objects(collection)
        bounds == calculate_collection_bounds(visual_objects)
    IN  /\ ~ should_skip_collection(collection)
        /\ is_parent_collection(collection)
        /\ visual_objects # <<>>
        /\ SumOf(visual_objects, "polygons") > 0
        /\ Max3(bounds.dimensions[1], bounds.dimensions[2],
                bounds.dimensions[3]) > 0

\* The entry main() appends to data['file_info']['collections'].
CollectionData(collection) ==
    LET visual_objects == get_all_collection_objects(collection)
        bounds == calculate_collection_bounds(visual_objects)
        total_polygons == SumOf(visual_objects, "polygons")
    IN  [ name             |-> collection.name,
          type             |-> "collection",
          polygon_count    |-> total_polygons,
          vertex_count     |-> SumOf(visual_objects, "vertices"),
          object_count     |-> Len(visual_objects),
          dimensions       |-> AsNumbers(bounds.dimensions),
          bbox_min         |-> bounds.bbox_min,
          bbox_max         |-> bounds.bbox_max,
          category         |-> CategoryOf(collection.name),
          complexity_score |-> calculate_complexity(total_polygons,
                                                    Len(visual_objects)),
          quality_tier     |-> determine_quality(total_polygons),
          has_geometry     |-> TRUE ]

\* main() tracks no object
nothing_in_collections == {}

\* objects_in_collections: the names of the visual objects of the
\* collections that became assets
objects_in_collections ==
    UNION { { get_all_collection_objects(blend.collections[i])[k].name :
                k \in DOMAIN get_all_collection_objects(blend.collections[i]) } :
            i \in { j \in DOMAIN blend.collections :
                      CapturedCollection(blend.collections[j]) } }

\* obj.users_collection: the collections the object is linked to (the
\* scene's own collection for an object linked to none of the file's)
users_collection(obj) ==
    LET linked == { i \in DOMAIN blend.collections :
                      obj.name \in blend.collections[i].objects }
    IN  IF linked = {} THEN 1 ELSE Cardinality(linked)

\* main(): the test an object passes to become an asset of its own.
StandaloneObject(obj) ==
    LET bounds == calculate_object_bounds(obj)
    IN  /\ obj.name \notin objects_in_collections
        /\ is_visual_object(obj)
        /\ ~ (users_collection(obj) > 1)
        /\ ~ should_skip_object_name(obj.name)
        /\ get_polygon_count(obj) > 0
        /\ Max3(bounds.dimensions[1], bounds.dimensions[2],
                bounds.dimensions[3]) > 0

\* The entry main() appends to data['file_info']['objects'].
ObjectData(obj) ==
    LET bounds == calculate_object_bounds(obj)
        polygon_count == get_polygon_count(obj)
    IN  [ name             |-> obj.name,
          type             |-> "object",
          polygon_count    |-> polygon_count,
          vertex_count     |-> get_vertex_count(obj),
          dimensions       |-> AsNumbers(bounds.dimensions),
          bbox_min         |-> bounds.bbox_min,
          bbox_max         |-> bounds.bbox_max,
          category         |-> CategoryOf(obj.name),
          complexity_score |-> calculate_complexity(polygon_count, 1),
          quality_tier     |-> determine_quality(polygon_count),
          has_geometry     |-> TRUE ]

\* data['file_info'] as main() of full_file mode returns it.
full_file_main ==
    LET collections == SelectSeq(blend.collections, CapturedCollection)
        objects == SelectSeq(blend.objects, StandaloneObject)
    IN  [ collections |-> [i \in DOMAIN collections |->
                             CollectionData(collections[i])],
          objects     |-> [i \in DOMAIN objects |-> ObjectData(objects[i])] ]

(***************************************************************************)
(* One whole-file pass: the script extracts the open file, and             *)
(* _store_extracted_data stores what it wrote into the pack.               *)
(***************************************************************************)
CollectionNames == {"Backup", "Building_A", "Car_01"}

\* The sets of collections an object may be linked to: at most two.
Links == { L \in SUBSET CollectionNames : Cardinality(L) <= 2 }

Mesh(name, polygon_count, dimensions) ==
    [name |-> name, type |-> "MESH", polygon_count |-> polygon_count,
     vertex_count |-> polygon_count + 2, bbox_min |-> <<0, 0, 0>>,
     dimensions |-> dimensions]

\* Building_A is 4 x 4 x 8 with 5,000 polygons, Car_01 is 2 x 1 x 1.5 with
\* 1,200 polygons, Prop_Barrel has 80 polygons; a body may also have no
\* polygon and a barrel no size, and ctrl_rig is a rig control.
Bodies == { Mesh("Body", n, <<4, 2, 3>>) : n \in {0, 1200} }
Barrels == { Mesh("Prop_Barrel", 80, d) : d \in {<<0, 0, 0>>, <<1, 1, 2>>} }

\* The files: bpy.data.collections and bpy.data.objects in name order.
Blends ==
    { [ collections |->
          << [name |-> "Backup", children |-> {},
              objects |-> {n \in DOMAIN links : "Backup" \in links[n]}],
             [name |-> "Building_A", children |-> nested,
              objects |-> {n \in DOMAIN links : "Building_A" \in links[n]}],
             [name |-> "Car_01", children |-> {},
              objects |-> {n \in DOMAIN links : "Car_01" \in links[n]}] >>,
        objects |->
          << body, barrel, Mesh("Wall", 5000, <<8, 8, 16>>),
             Mesh("ctrl_rig", 80, <<1, 1, 1>>) >> ] :
      nested \in SUBSET {"Backup", "Car_01"},
      body \in Bodies, barrel \in Barrels,
      links \in { l \in [{"Body", "Prop_Barrel", "Wall", "ctrl_rig"} -> Links] :
                    l["ctrl_rig"] \in {{}, {"Building_A"}} } }

ExtractInit ==
    /\ packs = OnePack
    /\ packSeq = 1
    /\ assets = <<>>
    /\ assetSeq = 0
    /\ assetProps = {}
    /\ assetTags = {}
    /\ given = <<>>
    /\ queue = <<>>
    /\ queueSeq = 0
    /\ pc = [w \in Workers |-> "idle"]
    /\ item = [w \in Workers |-> 0]
    /\ held = [w \in Workers |-> 0]
    /\ lastOp = [op |-> "init", arg |-> NULL, result |-> NULL]
    /\ disk = NoDisk
    /\ scan = IdleScan
    /\ blend \in Blends
    /\ data = NoData
    /\ scene = NoScene
    /\ work = NoWork
    /\ ui = NoUi
    /\ cache = NoCache

\* The Blender subprocess runs main() and writes its result.
RunExtraction ==
    /\ data.pc = "none"
    /\ data' = [pc |-> "extracted",
                collections |-> full_file_main.collections,
                objects |-> full_file_main.objects,
                asset |-> 1]
    /\ lastOp' = [op |-> "extract", arg |-> NULL, result |-> "success"]
    /\ UNCHANGED <<storeVars, queueVars, disk, scan, blend, scene, work, ui, cache>>

\* _store_extracted_data: the collections, then the objects, each through
\* _create_database_asset_improved; then it returns.
StoreExtracted ==
    /\ data.pc = "extracted"
    /\ LET all == data.collections \o data.objects
       IN  IF data.asset <= Len(all)
           THEN /\ create_database_asset_improved(
                      all[data.asset], 1, "scene.blend", "/packs/a/scene.blend")
                /\ data' = [data EXCEPT !.asset = data.asset + 1]
           ELSE /\ data' = [data EXCEPT !.pc = "stored"]
                /\ lastOp' = [op |-> "stored", arg |-> NULL,
                              result |-> Cardinality(AssetIds)]
                /\ UNCHANGED storeVars
    /\ UNCHANGED <<queueVars, disk, scan, blend, scene, work, ui, cache>>

\* fast_asset_search(max_polygons=50) on the scanned pack
SearchSmall ==
    /\ data.pc = "stored"
    /\ fast_asset_search([NoFilter EXCEPT !.max_polygons = Num(50)])
    /\ UNCHANGED <<queueVars, scanVars, scene, work, ui, cache>>

ExtractNext == RunExtraction \/ StoreExtracted \/ SearchSmall

ExtractSpec == ExtractInit /\ [][ExtractNext]_vars

(***************************************************************************)
(* The tiers of the extraction script, on the counters of one collection:  *)
(* here blend holds a polygon count, a second polygon count and an object  *)
(* count, and data the tiers the script computes from them.                *)
(***************************************************************************)
PolygonCounts ==
    {0, 1, 99, 100, 499, 500, 501, 1999, 2000, 2001, 9999, 10000, 10001, 50000}

ObjectCounts == {1, 2, 3, 10, 11, 12, 13, 50}

TierInit ==
    /\ packs = OnePack
    /\ packSeq = 1
    /\ assets = <<>>
    /\ assetSeq = 0
    /\ assetProps = {}
    /\ assetTags = {}
    /\ given = <<>>
    /\ queue = <<>>
    /\ queueSeq = 0
    /\ pc = [w \in Workers |-> "idle"]
    /\ item = [w \in Workers |-> 0]
    /\ held = [w \in Workers |-> 0]
    /\ lastOp = [op |-> "init", arg |-> NULL, result |-> NULL]
    /\ disk = NoDisk
    /\ scan = IdleScan
    /\ blend \in [polygon_count : PolygonCounts, more_polygons : PolygonCounts,
                  object_count : ObjectCounts]
    /\ data = NoData
    /\ scene = NoScene
    /\ work = NoWork
    /\ ui = NoUi
    /\ cache = NoCache

\* 'complexity_score': calculate_complexity(total_polygons, len(visual_objects)),
\* 'quality_tier': determine_quality(total_polygons)
Classify ==
    /\ data.pc = "none"
    /\ data' = [pc |-> "classified",
                quality_tier |-> determine_quality(blend.polygon_count),
                more_quality |-> determine_quality(blend.more_polygons),
                complexity_score |->
                    calculate_complexity(blend.polygon_count,
                                         blend.object_count)]
    /\ lastOp' = [op |-> "classify", arg |-> NULL, result |-> NULL]
    /\ UNCHANGED <<storeVars, queueVars, disk, scan, blend, scene, work, ui, cache>>

TierNext == Classify

TierSpec == TierInit /\ [][TierNext]_vars

(***************************************************************************)
(* classify_name of the extraction script, on one name and one pattern     *)
(* dictionary: here blend holds the name and the patterns in the order of  *)
(* the dictionary, and data the pattern name returned.  A text is a         *)
(* sequence of characters; a confidence is in tenths.                      *)
(***************************************************************************)
Letters == {"b", "B", "o"}

\* str.lower() on one character
LowerChar(c) == IF c = "B" THEN "b" ELSE IF c = "DATA_" THEN "data_" ELSE c

\* str.lower()
lower(text) == [i \in DOMAIN text |-> LowerChar(text[i])]

\* keyword in name: keyword is a contiguous part of name
IsIn(keyword, name) ==
    \E i \in 0..(Len(name) - Len(keyword)) :
        SubSeq(name, i + 1, i + Len(keyword)) = keyword

\* for keyword in keywords: if keyword.lower() in name_lower: ... break
AnyKeywordIn(keywords, name_lower) ==
    \E k \in DOMAIN keywords : IsIn(lower(keywords[k]), name_lower)

\* if confidence > best_confidence
Better(confidence, best_confidence) == confidence > best_confidence

\* The loop over patterns.items(), from pattern i on.
RECURSIVE ClassifyFrom(_, _, _, _, _)
ClassifyFrom(patterns, i, name_lower, best_match, best_confidence) ==
    IF i > Len(patterns) THEN best_match
    ELSE IF /\ AnyKeywordIn(patterns[i].keywords, name_lower)
            /\ Better(patterns[i].confidence, best_confidence)
         THEN ClassifyFrom(patterns, i + 1, name_lower,
                           patterns[i].pattern_name, patterns[i].confidence)
         ELSE ClassifyFrom(patterns, i + 1, name_lower,
                           best_match, best_confidence)

\* if not name: return None; best_match = None; best_confidence = 0.0
classify_name(name, patterns) ==
    IF name = <<>> THEN NULL
    ELSE ClassifyFrom(patterns, 1, lower(name), NULL, 0)

MaxNameLen == 2

MaxPatterns == 2

Texts == UNION { [1..n -> Letters] : n \in 0..MaxNameLen }

Keywords == {<<>>, <<"b">>, <<"o">>, <<"B", "o">>, <<"o", "b">>}

KeywordLists == UNION { [1..n -> Keywords] : n \in 0..2 }

\* confidence REAL DEFAULT 0.8 -- 0.0 to 1.0
Confidences == {0, 7, 8}

\* The rows of one pattern_type as _load_classification_patterns keeps
\* them: pattern_name is unique in a pattern_type, so the dictionary has
\* one entry for each row, in the order of the rows.
PatternLists ==
    UNION { { [i \in 1..n |-> [pattern_name |-> IF i = 1 THEN "vehicles"
                                                ELSE "props",
                               keywords |-> ks[i],
                               confidence |-> cs[i]]] :
                ks \in [1..n -> KeywordLists], cs \in [1..n -> Confidences] } :
            n \in 0..MaxPatterns }

ClassifyInit ==
    /\ packs = OnePack
    /\ packSeq = 1
    /\ assets = <<>>
    /\ assetSeq = 0
    /\ assetProps = {}
    /\ assetTags = {}
    /\ given = <<>>
    /\ queue = <<>>
    /\ queueSeq = 0
    /\ pc = [w \in Workers |-> "idle"]
    /\ item = [w \in Workers |-> 0]
    /\ held = [w \in Workers |-> 0]
    /\ lastOp = [op |-> "init", arg |-> NULL, result |-> NULL]
    /\ disk = NoDisk
    /\ scan = IdleScan
    /\ blend \in [name : Texts, patterns : PatternLists]
    /\ data = NoData
    /\ scene = NoScene
    /\ work = NoWork
    /\ ui = NoUi
    /\ cache = NoCache

\* category = classify_name(target_coll.name, CATEGORY_PATTERNS)
ClassifyName ==
    /\ data.pc = "none"
    /\ data' = [pc |-> "named",
                best_match |-> classify_name(blend.name, blend.patterns)]
    /\ lastOp' = [op |-> "classify_name", arg |-> NULL, result |-> NULL]
    /\ UNCHANGED <<storeVars, queueVars, disk, scan, blend, scene, work, ui, cache>>

ClassifyNext == ClassifyName

ClassifySpec == ClassifyInit /\ [][ClassifyNext]_vars

(***************************************************************************)
(* find_matching_mesh_names on texts: here blend holds the asset name and  *)
(* the names of the meshes of the file, and data the list of matches.  The *)
(* five characters DATA_ are one character of a text, as no other          *)
(* character of the model is one of them.                                  *)
(***************************************************************************)

\* mesh_name.replace('DATA_', ''): every occurrence is removed
WithoutData(mesh_name) == SelectSeq(mesh_name, LAMBDA c : c # "DATA_")

\* x in matches
InList(x, matches) == \E k \in 1..Len(matches) : matches[k] = x

\* Strategy 1: matches.insert(0, mesh_name) for each mesh_name == asset_name
RECURSIVE ExactFrom(_, _, _, _)
ExactFrom(asset_name, available_meshes, k, matches) ==
    IF k > Len(available_meshes) THEN matches
    ELSE ExactFrom(asset_name, available_meshes, k + 1,
                   IF available_meshes[k] = asset_name
                   THEN <<available_meshes[k]>> \o matches ELSE matches)

\* Strategies 2 to 4: matches.append(mesh_name) for each mesh_name that
\* passes the test of the strategy and is not in matches
RECURSIVE AppendFrom(_, _, _, _, _)
AppendFrom(asset_name_lower, available_meshes, strategy, k, matches) ==
    IF k > Len(available_meshes) THEN matches
    ELSE LET mesh_name == available_meshes[k]
             test == CASE strategy = 2 ->
                             IsIn(asset_name_lower, lower(mesh_name))
                      [] strategy = 3 ->
                             IsIn(lower(mesh_name), asset_name_lower)
                      [] strategy = 4 ->
                             lower(WithoutData(mesh_name)) = asset_name_lower
         IN  AppendFrom(asset_name_lower, available_meshes, strategy, k + 1,
                        IF test /\ ~InList(mesh_name, matches)
                        THEN Append(matches, mesh_name) ELSE matches)

\* find_matching_mesh_names(asset_name, available_meshes), on texts
matching_mesh_names(asset_name, available_meshes) ==
    LET s1 == ExactFrom(asset_name, available_meshes, 1, <<>>)
        s2 == AppendFrom(lower(asset_name), available_meshes, 2, 1, s1)
        s3 == AppendFrom(lower(asset_name), available_meshes, 3, 1, s2)
    IN  AppendFrom(lower(asset_name), available_meshes, 4, 1, s3)

MaxMeshNameLen == 3

MaxMeshes == 2

AssetNames == Texts \ {<<>>}

MeshNames ==
    UNION { [1..n -> Letters \cup {"DATA_"}] : n \in 1..MaxMeshNameLen }

\* list(data_from.meshes): the names of the meshes of a file, no two alike
MeshLists ==
    { meshes \in UNION { [1..n -> MeshNames] : n \in 0..MaxMeshes } :
        \A i, j \in 1..Len(meshes) : i # j => meshes[i] # meshes[j] }

MatchInit ==
    /\ packs = OnePack
    /\ packSeq = 1
    /\ assets = <<>>
    /\ assetSeq = 0
    /\ assetProps = {}
    /\ assetTags = {}
    /\ given = <<>>
    /\ queue = <<>>
    /\ queueSeq = 0
    /\ pc = [w \in Workers |-> "idle"]
    /\ item = [w \in Workers |-> 0]
    /\ held = [w \in Workers |-> 0]
    /\ lastOp = [op |-> "init", arg |-> NULL, result |-> NULL]
    /\ disk = NoDisk
    /\ scan = IdleScan
    /\ blend \in [asset_name : AssetNames, available_meshes : MeshLists]
    /\ data = NoData
    /\ scene = NoScene
    /\ work = NoWork
    /\ ui = NoUi
    /\ cache = NoCache

\* matching_meshes = find_matching_mesh_names(asset_name, available_meshes);
\* selected_mesh = matching_meshes[0] if there is one
MatchMesh ==
    /\ data.pc = "none"
    /\ data' = [pc |-> "matched",
                matching_meshes |->
                    matching_mesh_names(blend.asset_name,
                                        blend.available_meshes)]
    /\ lastOp' = [op |-> "find_matching_mesh_names", arg |-> NULL,
                  result |-> NULL]
    /\ UNCHANGED <<storeVars, queueVars, disk, scan, blend, scene, work, ui, cache>>

MatchNext == MatchMesh

MatchSpec == MatchInit /\ [][MatchNext]_vars

(***************************************************************************)
(* The scene builder (src/backend.py): group_assets_by_blend_file and      *)
(* load_assets_optimized.  A location or a rotation is a list of Python    *)
(* values, each Num(n) or None (None standing for any value that is not a  *)
(* number); an index is the Python index, counted from 0.                  *)
(***************************************************************************)

\* field in asset_data
Has(asset_data, field) == field \in DOMAIN asset_data

\* asset_data.get(field), None when the key is absent
Field(asset_data, field) ==
    IF Has(asset_data, field) THEN asset_data[field] ELSE NULL

\* os.path.exists(blend_file), which answers for any path whatever the
\* entry says
AnyPathExists(files, blend_file) == TRUE

\* os.path.exists(blend_file)
PathExists(files, blend_file) == blend_file \in DOMAIN files

\* isinstance(location, (list, tuple)) and len(location) == 3 and
\* all(isinstance(item, (int, float)) for item in location)
NumericTriple(location) ==
    /\ Len(location) = 3
    /\ \A k \in 1..3 : IsNumber(location[k])

ZeroRotation == <<Num(0), Num(0), Num(0)>>

\* assets_by_file[blend_file].append(entry), the key made at the end of the
\* dict when it is new
AppendUnder(assets_by_file, blend_file, entry) ==
    IF \E g \in 1..Len(assets_by_file) :
           assets_by_file[g].blend_file = blend_file
    THEN [g \in 1..Len(assets_by_file) |->
             IF assets_by_file[g].blend_file = blend_file
             THEN [assets_by_file[g] EXCEPT
                      !.entries = Append(assets_by_file[g].entries, entry)]
             ELSE assets_by_file[g]]
    ELSE Append(assets_by_file,
                [blend_file |-> blend_file, entries |-> <<entry>>])

\* The body of the loop of group_assets_by_blend_file for the i-th asset
\* (Python index i - 1): each continue leaves assets_by_file as it is.
GroupOne(files, selected_assets, locations, rotations, i, assets_by_file) ==
    LET asset_data == selected_assets[i]
        rotation   == IF i <= Len(rotations) THEN rotations[i]
                      ELSE ZeroRotation
    IN  IF DOMAIN asset_data = {} \/ i > Len(locations)
        THEN assets_by_file
        ELSE IF ~NumericTriple(locations[i])
        THEN assets_by_file
        ELSE IF ~(\A field \in {"id", "name", "blend_file_path"} :
                      Has(asset_data, field))
        THEN assets_by_file
        ELSE IF ~PathExists(files, asset_data.blend_file_path)
        THEN assets_by_file
        ELSE AppendUnder(assets_by_file, asset_data.blend_file_path,
                         [asset_data |-> asset_data,
                          location   |-> locations[i],
                          rotation   |-> rotation,
                          index      |-> i - 1])

RECURSIVE GroupFrom(_, _, _, _, _, _)
GroupFrom(files, selected_assets, locations, rotations, i, assets_by_file) ==
    IF i > Len(selected_assets) THEN assets_by_file
    ELSE GroupFrom(files, selected_assets, locations, rotations, i + 1,
                   GroupOne(files, selected_assets, locations, rotations, i,
                            assets_by_file))

\* group_assets_by_blend_file(selected_assets, locations, rotations); a
\* rotations of None is the list of zero rotations, which is also what an
\* index past the end of rotations gets
group_assets_by_blend_file(files, selected_assets, locations, rotations) ==
    GroupFrom(files, selected_assets, locations, rotations, 1, <<>>)

\* find_matching_mesh_names(asset_name, available_meshes): the exact match
\* first.  No name of the model is part of another one, with or without
\* its case or a DATA_ prefix, so the exact match is the only match.
find_matching_mesh_names(asset_name, available_meshes) ==
    IF asset_name \in available_meshes THEN <<asset_name>> ELSE <<>>

\* obj.rotation_euler = rotation raises unless rotation is three numbers;
\* the assignment is made only if rotation and len(rotation) >= 3.
AssignRaises(rotation) ==
    /\ Len(rotation) >= 3
    /\ ~NumericTriple(rotation)

\* The object create_collection_instance, create_mesh_object or the copy of
\* a loaded object links to the scene for an entry.  The object is linked
\* and located before its rotation is assigned, and its asset_id and
\* asset_name are stored last: tagged says whether that was reached.  index
\* is the entry the object was made for; only a fallback cube stores it.
Instance(entry, how, tagged) ==
    [ kind       |-> how,
      type       |-> IF how = "collection" THEN "EMPTY" ELSE "MESH",
      location   |-> entry.location,
      asset_id   |-> IF tagged THEN entry.asset_data.id ELSE NULL,
      asset_name |-> IF tagged THEN entry.asset_data.name ELSE NULL,
      index      |-> entry.index ]

\* create_cube_fallback(asset_data, location, index)
create_cube_fallback(entry) ==
    [ kind       |-> "cube",
      type       |-> "MESH",
      location   |-> entry.location,
      asset_id   |-> entry.asset_data.id,
      asset_name |-> entry.asset_data.name,
      index      |-> entry.index ]

\* for entry in ...: create_cube_fallback(...), of an except branch
Fallbacks(entries) ==
    [k \in 1..Len(entries) |-> create_cube_fallback(entries[k])]

\* The loop of a batch that links one object per entry: how[k] is what the
\* k-th entry resolved to ("cube" when it did not).  An exception leaves
\* the loop with the objects linked so far, the one being made included.
RECURSIVE LinkFrom(_, _, _, _)
LinkFrom(entries, how, k, placed) ==
    IF k > Len(entries) THEN [placed |-> placed, raised |-> FALSE]
    ELSE IF how[k] = "cube"
    THEN LinkFrom(entries, how, k + 1,
                  Append(placed, create_cube_fallback(entries[k])))
    ELSE IF AssignRaises(entries[k].rotation)
    THEN [placed |-> Append(placed, Instance(entries[k], how[k], FALSE)),
          raised |-> TRUE]
    ELSE LinkFrom(entries, how, k + 1,
                  Append(placed, Instance(entries[k], how[k], TRUE)))

\* bpy.data.libraries.load(blend_file, link=False) raises for a file that
\* is not there or is not a readable .blend file.
LoadRaises(files, blend_file) ==
    \/ blend_file \notin DOMAIN files
    \/ ~files[blend_file].readable

\* The end of a batch: the except branch adds a fallback for every entry
\* of the batch to whatever the try block had linked.
BatchPlaced(entries, loop) ==
    IF loop.raised THEN loop.placed \o Fallbacks(entries) ELSE loop.placed

\* data_to.<kind> = names, in the with block of the load of blend_file
Request(blend_file, kind, names) ==
    [blend_file |-> blend_file, kind |-> kind, names |-> names]

\* collections_to_load: for collection_name in collection_names, appended
\* when collection_name in available_collections
CollectionsToLoad(collection_names, available_collections) ==
    SelectSeq(collection_names, LAMBDA name : name \in available_collections)

\* list(set(names)) without None: each name once; the order is that of the
\* hash table and nothing reads it
ListOfSet(names) ==
    LET set == {names[k] : k \in 1..Len(names)} \ {NULL}
    IN  CHOOSE list \in [1..Cardinality(set) -> set] :
            {list[k] : k \in 1..Cardinality(set)} = set

\* load_collections_batch(blend_file, collection_assets), on the state
\* s = [opened, requested, loaded, placed]
load_collections_batch(files, s, blend_file, collection_assets) ==
    LET collection_names ==
            [k \in 1..Len(collection_assets) |->
                collection_assets[k].asset_data.collection_name]
        names   == {collection_names[k] : k \in 1..Len(collection_names)}
        opened  == Append(s.opened, blend_file)
    IN  IF LoadRaises(files, blend_file)
        THEN [s EXCEPT !.opened = opened,
                       !.placed = @ \o Fallbacks(collection_assets)]
        ELSE LET collections_to_load ==
                     CollectionsToLoad(collection_names,
                                       files[blend_file].collections)
                 loaded ==
                     [s.loaded EXCEPT !.collections =
                          @ \cup (names \cap files[blend_file].collections)]
                 how == [k \in 1..Len(collection_assets) |->
                            IF collection_assets[k].asset_data
                                   .collection_name \in loaded.collections
                            THEN "collection" ELSE "cube"]
             IN  [opened |-> opened,
                  requested |->
                      IF collections_to_load # <<>>
                      THEN Append(s.requested,
                                  Request(blend_file, "collections",
                                          collections_to_load))
                      ELSE s.requested,
                  loaded |-> loaded,
                  placed |-> BatchPlaced(collection_assets,
                                 LinkFrom(collection_assets, how, 1,
                                          s.placed))]

\* The object a mesh entry asks for when the file has it, else None
ObjectFor(file, entry) ==
    LET object_name == Field(entry.asset_data, "object_name")
    IN  IF object_name # NULL /\ object_name \in file.objects
        THEN object_name ELSE NULL

\* The mesh a mesh entry gets when it takes no object: matching_meshes[0]
MeshFor(file, entry) ==
    LET matching_meshes ==
            find_matching_mesh_names(entry.asset_data.name, file.meshes)
    IN  IF ObjectFor(file, entry) = NULL /\ matching_meshes # <<>>
        THEN matching_meshes[1] ELSE NULL

\* asset_object_map / asset_mesh_map: the value the last entry of that
\* asset id put there, None when no entry did
MapAt(entries, choice, asset_id) ==
    LET ks == {k \in 1..Len(entries) :
                  /\ entries[k].asset_data.id = asset_id
                  /\ choice[k] # NULL}
    IN  IF ks = {} THEN NULL
        ELSE choice[CHOOSE k \in ks : \A j \in ks : j <= k]

\* load_meshes_batch(blend_file, mesh_assets), on the state
\* s = [opened, requested, loaded, placed]
load_meshes_batch(files, s, blend_file, mesh_assets) ==
    LET opened == Append(s.opened, blend_file)
        ks     == 1..Len(mesh_assets)
    IN  IF LoadRaises(files, blend_file)
        THEN [s EXCEPT !.opened = opened,
                       !.placed = @ \o Fallbacks(mesh_assets)]
        ELSE LET file    == files[blend_file]
                 objects == [k \in ks |-> ObjectFor(file, mesh_assets[k])]
                 meshes  == [k \in ks |-> MeshFor(file, mesh_assets[k])]
                 loaded  ==
                     [s.loaded EXCEPT
                         !.objects = @ \cup ({objects[k] : k \in ks}
                                                 \ {NULL}),
                         !.meshes  = @ \cup ({meshes[k] : k \in ks}
                                                 \ {NULL})]
                 how == [k \in ks |->
                     LET asset_id == mesh_assets[k].asset_data.id
                         object_name == MapAt(mesh_assets, objects, asset_id)
                         mesh_name   == MapAt(mesh_assets, meshes, asset_id)
                     IN  IF object_name # NULL
                         THEN IF object_name \in loaded.objects
                              THEN "object" ELSE "cube"
                         ELSE IF mesh_name # NULL
                         THEN IF mesh_name \in loaded.meshes
                              THEN "mesh" ELSE "cube"
                         ELSE "cube"]
             IN  [opened |-> opened,
                  requested |->
                      s.requested \o
                      <<Request(blend_file, "objects", ListOfSet(objects)),
                        Request(blend_file, "meshes", ListOfSet(meshes))>>,
                  loaded |-> loaded,
                  placed |-> BatchPlaced(mesh_assets,
                                 LinkFrom(mesh_assets, how, 1, s.placed))]

\* if asset_data.get('collection_name'): a name that is not None or ''
NamesCollection(entry) ==
    /\ Field(entry.asset_data, "collection_name") # NULL
    /\ Field(entry.asset_data, "collection_name") # ""

\* load_assets_from_single_file(blend_file, asset_entries): the collection
\* batch if any entry names a collection, then the mesh batch if any entry
\* does not
load_assets_from_single_file(files, s, blend_file, asset_entries) ==
    LET collection_assets == SelectSeq(asset_entries, NamesCollection)
        NamesNone(entry)  == ~NamesCollection(entry)
        mesh_assets       == SelectSeq(asset_entries, NamesNone)
        after == IF collection_assets # <<>>
                 THEN load_collections_batch(files, s, blend_file,
                                             collection_assets)
                 ELSE s
    IN  IF mesh_assets # <<>>
        THEN load_meshes_batch(files, after, blend_file, mesh_assets)
        ELSE after

(***************************************************************************)
(* One scene build: build_scene_from_instructions on every call of up to   *)
(* MaxEntries selected assets, over .blend files that are whole, hold      *)
(* nothing that is asked of them, or cannot be read.                       *)
(***************************************************************************)
MaxEntries == 2

WholeFile ==
    [readable |-> TRUE, collections |-> {"House", "Tree"},
     objects |-> {"Lamp"}, meshes |-> {"Crate"}]

BareFile ==
    [readable |-> TRUE, collections |-> {}, objects |-> {}, meshes |-> {}]

BrokenFile == [WholeFile EXCEPT !.readable = FALSE]

\* The .blend files on disk: /packs/b/c.blend is whole, /packs/a/a.blend
\* is any of the three, /packs/gone.blend is not there.
SceneFiles ==
    { [path \in {"/packs/a/a.blend", "/packs/b/c.blend"} |->
          IF path = "/packs/a/a.blend" THEN a ELSE WholeFile] :
      a \in {WholeFile, BareFile, BrokenFile} }

\* An asset record as the caller hands it over
AssetRecord(id, name, blend_file_path, collection_name) ==
    [id |-> id, name |-> name, blend_file_path |-> blend_file_path,
     collection_name |-> collection_name]

\* The records a call selects from: a collection, a mesh and an object of
\* a.blend, two collections of c.blend, an asset of a file that is gone, a
\* record with no blend_file_path, and an empty record.
SelectableAssets ==
    { AssetRecord(1, "House", "/packs/a/a.blend", "House"),
      AssetRecord(2, "Crate", "/packs/a/a.blend", NULL),
      [id |-> 3, name |-> "Lamp", blend_file_path |-> "/packs/a/a.blend",
       collection_name |-> NULL, object_name |-> "Lamp"],
      AssetRecord(4, "Tree", "/packs/b/c.blend", "Tree"),
      AssetRecord(7, "House", "/packs/b/c.blend", "House"),
      AssetRecord(5, "Barrel", "/packs/gone.blend", NULL),
      [id |-> 6, name |-> "Fence"],
      [field \in {} |-> NULL] }

\* A location of three numbers, one of two, and one with a value that is
\* not a number
LocationValues ==
    { <<Num(1), Num(2), Num(0)>>, <<Num(1), Num(2)>>,
      <<Num(1), None, Num(0)>> }

\* A rotation of three numbers and one with a value that is not a number
RotationValues == { <<Num(0), Num(0), Num(90)>>, <<Num(0), Num(0), None>> }

\* The lists of at most n values
ListsUpTo(n, values) == UNION { [1..m -> values] : m \in 0..n }

\* instructions: selected_assets is not empty (the builder returns at once
\* if it is), locations and rotations may be shorter
SceneCalls ==
    UNION { { [selected_assets |-> selected_assets,
               locations |-> locations, rotations |-> rotations] :
              selected_assets \in [1..n -> SelectableAssets],
              locations \in ListsUpTo(n, LocationValues),
              rotations \in ListsUpTo(n, RotationValues) } :
            n \in 1..MaxEntries }

SceneInit ==
    /\ packs = <<>>
    /\ packSeq = 0
    /\ assets = <<>>
    /\ assetSeq = 0
    /\ assetProps = {}
    /\ assetTags = {}
    /\ given = <<>>
    /\ queue = <<>>
    /\ queueSeq = 0
    /\ pc = [w \in Workers |-> "idle"]
    /\ item = [w \in Workers |-> 0]
    /\ held = [w \in Workers |-> 0]
    /\ lastOp = [op |-> "init", arg |-> NULL, result |-> NULL]
    /\ disk = NoDisk
    /\ scan = IdleScan
    /\ blend = NoBlend
    /\ data = NoData
    /\ scene \in { [NoScene EXCEPT !.files = files] : files \in SceneFiles }
    /\ work = NoWork
    /\ ui = NoUi
    /\ cache = NoCache

\* build_scene_from_instructions(instructions), up to the loop of
\* load_assets_optimized: the MESH objects of the scene are removed and
\* the entries are grouped.
build_scene_from_instructions(call) ==
    /\ scene' = [scene EXCEPT
           !.pc     = "loading",
           !.call   = call,
           !.placed = SelectSeq(@, LAMBDA obj : obj.type # "MESH"),
           !.groups = group_assets_by_blend_file(scene.files,
                          call.selected_assets, call.locations,
                          call.rotations),
           !.file   = 1,
           !.opened = <<>>,
           !.requested = <<>>,
           !.builds = @ + 1]
    /\ lastOp' = [op |-> "buildScene", arg |-> call, result |-> NULL]
    /\ UNCHANGED <<storeVars, queueVars, scanVars, work, ui, cache>>

BuildScene ==
    /\ scene.pc = "idle"
    /\ \E call \in SceneCalls : build_scene_from_instructions(call)

\* One turn of the loop of load_assets_optimized: the batches of one file.
\* The except branch of the loop is not reached, as each batch catches
\* what it raises.
LoadFile ==
    /\ scene.pc = "loading"
    /\ scene.file <= Len(scene.groups)
    /\ LET group == scene.groups[scene.file]
           after == load_assets_from_single_file(scene.files,
                        [opened |-> scene.opened,
                         requested |-> scene.requested,
                         loaded |-> scene.loaded,
                         placed |-> scene.placed],
                        group.blend_file, group.entries)
       IN  scene' = [scene EXCEPT !.opened = after.opened,
                                  !.requested = after.requested,
                                  !.loaded = after.loaded,
                                  !.placed = after.placed,
                                  !.file   = @ + 1]
    /\ lastOp' = [op |-> "loadFile", arg |-> scene.file, result |-> NULL]
    /\ UNCHANGED <<storeVars, queueVars, scanVars, work, ui, cache>>

\* The loop of load_assets_optimized is over: the scene is complete.
SceneComplete ==
    /\ scene.pc = "loading"
    /\ scene.file > Len(scene.groups)
    /\ scene' = [scene EXCEPT !.pc = "done"]
    /\ lastOp' = [op |-> "sceneComplete", arg |-> NULL, result |-> NULL]
    /\ UNCHANGED <<storeVars, queueVars, scanVars, work, ui, cache>>

SceneNext == BuildScene \/ LoadFile \/ SceneComplete

SceneSpec == SceneInit /\ [][SceneNext]_vars

(***************************************************************************)
(* Builds one after the other, in a scene that holds objects of the user's *)
(* own before the first: each call places one asset.                       *)
(***************************************************************************)
MaxBuilds == 2

\* An object that no build made: kind "user", of the given Blender type
UserObject(type) ==
    [ kind |-> "user", type |-> type, location |-> ZeroRotation,
      asset_id |-> NULL, asset_name |-> NULL, index |-> -1 ]

\* The scenes a first build may find: empty, or with a mesh, a camera or
\* both in it
UserScenes ==
    { <<>>, <<UserObject("MESH")>>, <<UserObject("CAMERA")>>,
      <<UserObject("CAMERA"), UserObject("MESH")>> }

\* The calls that place one asset of a file that is there
RebuildCalls ==
    { call \in SceneCalls :
         /\ Len(call.selected_assets) = 1
         /\ Len(call.locations) = 1
         /\ Len(call.rotations) = 0
         /\ NumericTriple(call.locations[1])
         /\ Has(call.selected_assets[1], "blend_file_path")
         /\ call.selected_assets[1].blend_file_path \in
                {"/packs/a/a.blend", "/packs/b/c.blend"} }

RebuildInit ==
    /\ packs = <<>>
    /\ packSeq = 0
    /\ assets = <<>>
    /\ assetSeq = 0
    /\ assetProps = {}
    /\ assetTags = {}
    /\ given = <<>>
    /\ queue = <<>>
    /\ queueSeq = 0
    /\ pc = [w \in Workers |-> "idle"]
    /\ item = [w \in Workers |-> 0]
    /\ held = [w \in Workers |-> 0]
    /\ lastOp = [op |-> "init", arg |-> NULL, result |-> NULL]
    /\ disk = NoDisk
    /\ scan = IdleScan
    /\ blend = NoBlend
    /\ data = NoData
    /\ scene \in { [NoScene EXCEPT !.files = files, !.placed = objects] :
                      files \in SceneFiles, objects \in UserScenes }
    /\ work = NoWork
    /\ ui = NoUi
    /\ cache = NoCache

\* A call of build_scene_from_instructions when no build is under way
Rebuild ==
    /\ scene.pc \in {"idle", "done"}
    /\ scene.builds < MaxBuilds
    /\ \E call \in RebuildCalls : build_scene_from_instructions(call)

\* Python values that instructions may be: None, a list, and dictionaries
\* (empty, without 'locations', without 'selected_assets', and with an
\* empty 'selected_assets'); keys are the keys of a dictionary
InvalidInstructions ==
    { [type |-> "NoneType", keys |-> {}, selected_assets |-> <<>>],
      [type |-> "list", keys |-> {}, selected_assets |-> <<>>],
      [type |-> "dict", keys |-> {}, selected_assets |-> <<>>],
      [type |-> "dict", keys |-> {"reasoning"}, selected_assets |-> <<>>],
      [type |-> "dict", keys |-> {"locations"}, selected_assets |-> <<>>],
      [type |-> "dict", keys |-> {"locations", "selected_assets"},
       selected_assets |-> <<>>] }

\* not instructions or not isinstance(instructions, dict) or
\* "locations" not in instructions
InvalidResponse(instructions) ==
    \/ instructions.type = "NoneType"
    \/ instructions.keys = {}
    \/ instructions.type # "dict"
    \/ "locations" \notin instructions.keys

\* if not selected_assets, of instructions.get("selected_assets", [])
NoAssetsSelected(instructions) ==
    LET selected_assets ==
            IF "selected_assets" \in instructions.keys
            THEN instructions.selected_assets ELSE <<>>
    IN  selected_assets = <<>>

\* build_scene_from_instructions(instructions) on instructions it returns
\* early on: the MESH objects of the scene are removed first, then the
\* instructions are looked at
build_scene_returns_early(instructions) ==
    /\ InvalidResponse(instructions) \/ NoAssetsSelected(instructions)
    /\ scene' = [scene EXCEPT
           !.pc     = "done",
           !.placed = SelectSeq(@, LAMBDA obj : obj.type # "MESH"),
           !.builds = @ + 1]
    /\ lastOp' = [op |-> "buildScene", arg |-> instructions,
                  result |-> "returned early"]
    /\ UNCHANGED <<storeVars, queueVars, scanVars, work, ui, cache>>

\* A call of build_scene_from_instructions with such instructions
RebuildInvalid ==
    /\ scene.pc \in {"idle", "done"}
    /\ scene.builds < MaxBuilds
    /\ \E instructions \in InvalidInstructions :
           build_scene_returns_early(instructions)

RebuildNext == Rebuild \/ RebuildInvalid \/ LoadFile \/ SceneComplete

RebuildSpec == RebuildInit /\ [][RebuildNext]_vars

(***************************************************************************)
(* _process_blend_file: the strategy for one file and its worker           *)
(* invocations.  An invocation is one of _process_standard_blend_file      *)
(* (mode full_file), _quick_scan_collections (quick_scan),                 *)
(* _extract_single_collection (single_collection) and                      *)
(* _extract_standalone_objects (standalone): the program is generated,     *)
(* validated, written to a temporary file beside an output file, run in a  *)
(* Blender subprocess, its output read and stored, and the two files       *)
(* removed.                                                                *)
(***************************************************************************)
LARGE_FILE_THRESHOLD == 500 * 1024 * 1024

\* max_retries of _extract_with_retry
max_retries == 2

\* A single_collection program holds TARGET_COLLECTION = "<name>" with the
\* name as it is: a name with a double quote in it makes a program that
\* does not compile.  The programs of the other modes hold no name, or
\* hold names through json.dumps.
Compiles(mode, collection_name) ==
    ~ (mode = "single_collection" /\ collection_name = "Gate \"B\"")

\* The modes whose function calls _validate_script_generation before it
\* writes the program: every mode but quick_scan
Validates(mode) == mode # "quick_scan"

\* The two files of tempfile.NamedTemporaryFile(delete=False)
TempFiles == {"script.py", "output.json"}

\* The ways a worker function ends.  It raises when the subprocess exits
\* non-zero, times out, leaves no output file, leaves output that is not
\* JSON, leaves an 'error' or leaves a result without 'success', and when
\* the program does not pass validation.  transient: the text of the exception holds one of the
\* words of _is_transient_error, which the fixed texts do not.
Outcome(kind, transient) == [kind |-> kind, transient |-> transient]

RunFailures ==
    { Outcome(kind, transient) :
        kind \in {"nonzero", "timeout", "error"}, transient \in BOOLEAN }
    \cup { Outcome(kind, FALSE) :
             kind \in {"no_output", "unparsable", "no_success"} }

\* Exit code 0 and a result with 'success' and no 'error'
Success == Outcome("success", FALSE)

\* _is_transient_error(error)
is_transient_error(failure) == failure.transient

\* if attempt < max_retries or the error is transient
RetryAny(attempt, failure) ==
    attempt < max_retries \/ is_transient_error(failure)

\* if attempt < max_retries and self._is_transient_error(e)
Retry(attempt, failure) ==
    attempt < max_retries /\ is_transient_error(failure)

\* The turn of the loop over collections is over: the next collection, or
\* phase 3, the standalone pass.
NextGroup(w) ==
    IF w.group < Len(w.collections)
    THEN [w EXCEPT !.pc = "ready", !.group = @ + 1, !.attempt = 0]
    ELSE [w EXCEPT !.pc = "ready", !.mode = "standalone"]

\* The file is done: _process_blend_file returns the number of assets or
\* raises.
Returned(w, status, count) ==
    [w EXCEPT !.pc = "done",
              !.result = [status |-> status, assets |-> count]]

\* except Exception of the loop over collections, the run stopped there
StopAtFailure(w, coll_name) ==
    Returned([w EXCEPT !.failed = Append(@, coll_name)], "failed", 0)

\* except Exception of the loop over collections:
\* failed_collections.append(coll_name); continue
ContinueAfterFailure(w, coll_name) ==
    NextGroup([w EXCEPT !.failed = Append(@, coll_name)])

\* The quick scan raised or found nothing, and standard extraction is
\* skipped for the standalone pass
FallBackToStandalone(w) == [w EXCEPT !.pc = "ready", !.mode = "standalone"]

\* return self._process_standard_blend_file(blend_file_path, pack_id)
FallBackToStandard(w) == [w EXCEPT !.pc = "ready", !.mode = "full_file"]

\* The worker function at hand raised: what its caller does.
AfterFailure(w, failure) ==
    IF w.mode = "quick_scan" THEN FallBackToStandard(w)
    ELSE IF w.mode = "single_collection"
    THEN IF Retry(w.attempt, failure)
         THEN [w EXCEPT !.pc = "ready", !.attempt = @ + 1]
         ELSE ContinueAfterFailure(w, w.collections[w.group])
    ELSE IF w.mode = "standalone"
    THEN Returned(w, "processed", w.total)
    ELSE Returned(w, "failed", 0)

\* The worker function at hand returned count: what its caller does.
AfterSuccess(w, count) ==
    IF w.mode = "single_collection"
    THEN NextGroup([w EXCEPT !.total = @ + count])
    ELSE IF w.mode = "standalone"
    THEN Returned(w, "processed", w.total + count)
    ELSE Returned(w, "processed", count)

\* The quick scan returned collection_names.
AfterQuickScan(w, collection_names) ==
    IF collection_names = <<>> THEN FallBackToStandard(w)
    ELSE [w EXCEPT !.pc = "ready", !.mode = "single_collection",
                   !.collections = collection_names,
                   !.group = 1, !.attempt = 0]

\* finally of a worker function whose clean-up is left out when it raises
CleanUpOnSuccess(temp, raised) == IF raised THEN temp ELSE temp \ TempFiles

\* finally: os.unlink of the program file and the output file
CleanUp(temp, raised) == temp \ TempFiles

\* One line of the log for the invocation at hand
Invocation(w, outcome) ==
    [ mode |-> w.mode,
      collection |-> IF w.mode = "single_collection"
                     THEN w.collections[w.group] ELSE NULL,
      attempt |-> w.attempt, validated |-> w.validated, outcome |-> outcome ]

\* The result is stored although it holds no 'success'
StoresUnchecked(outcome) == outcome.kind \in {"success", "no_success"}

\* _store_extracted_data is reached and does not raise at its first line:
\* exit code 0, an output file of JSON with 'success' and no 'error'
Stores(outcome) == outcome.kind = "success"

(***************************************************************************)
(* One file through _process_blend_file, with every way each worker        *)
(* invocation may end.                                                     *)
(***************************************************************************)
FileSizes ==
    {LARGE_FILE_THRESHOLD - 1, LARGE_FILE_THRESHOLD, LARGE_FILE_THRESHOLD + 1}

\* What a quick scan may enumerate
Listings ==
    { <<>>, <<"Car_01">>, <<"Building_A", "Car_01">>,
      <<"Car_01", "Gate \"B\"">>, <<"Gate \"B\"", "Car_01">> }

\* file_info of a result with 'success': its collections, then its objects
Outputs(mode, collection_name) ==
    IF mode = "single_collection"
    THEN {<<>>, <<ScannedAsset(collection_name, "collection")>>}
    ELSE IF mode = "standalone"
    THEN {<<>>, <<ScannedAsset("Barrel", "object")>>}
    ELSE {<<>>, <<ScannedAsset("Car_01", "collection"),
                  ScannedAsset("Barrel", "object")>>}

WorkInit == Init

\* _process_blend_file(blend_file_path, pack_id): the strategy by the size
ProcessFile ==
    /\ work.pc = "idle"
    /\ \E file_size \in FileSizes :
          work' = [work EXCEPT
              !.pc = "ready",
              !.file = "/packs/a/a.blend",
              !.size = file_size,
              !.mode = IF file_size > LARGE_FILE_THRESHOLD
                       THEN "quick_scan" ELSE "full_file"]
    /\ lastOp' = [op |-> "processFile", arg |-> NULL, result |-> NULL]
    /\ UNCHANGED <<storeVars, queueVars, scanVars, scene, ui, cache>>

\* A worker function up to subprocess.run: the program is generated,
\* validated where the function validates (a program that fails raises
\* ValueError before any file is made), and the two temporary files are
\* made.
Spawn ==
    /\ work.pc = "ready"
    /\ LET collection_name == Invocation(work, Success).collection
       IN  IF Validates(work.mode) /\ ~Compiles(work.mode, collection_name)
           THEN /\ work' = AfterFailure(work, Outcome("invalid", FALSE))
                /\ lastOp' = [op |-> "invalid", arg |-> work.mode,
                              result |-> NULL]
           ELSE /\ work' = [work EXCEPT
                       !.pc = "running",
                       !.validated = Validates(work.mode),
                       !.temp = @ \cup TempFiles]
                /\ lastOp' = [op |-> "spawn", arg |-> work.mode,
                              result |-> NULL]
    /\ UNCHANGED <<storeVars, queueVars, scanVars, scene, ui, cache>>

\* The subprocess ended, or timed out: the worker function reads the output
\* and raises, or returns (quick_scan, or nothing to store), or goes on to
\* _store_extracted_data; the finally block runs as the function is left.
Return ==
    /\ work.pc = "running"
    /\ \E outcome \in {Success} \cup RunFailures :
          LET logged == [work EXCEPT
                            !.log = Append(@, Invocation(work, outcome))]
              left(raised) == [logged EXCEPT !.temp = CleanUp(@, raised)]
          IN  /\ IF work.mode = "quick_scan"
                 THEN IF outcome = Success
                      THEN \E collection_names \in Listings :
                              work' = AfterQuickScan(left(FALSE),
                                                     collection_names)
                      ELSE work' = AfterFailure(left(TRUE), outcome)
                 ELSE IF Stores(outcome)
                 THEN \E output \in Outputs(work.mode,
                                            logged.log[Len(logged.log)]
                                                .collection) :
                         IF output = <<>>
                         THEN work' = AfterSuccess(left(FALSE), 0)
                         ELSE work' = [logged EXCEPT !.pc = "storing",
                                                     !.pending = output,
                                                     !.created = 0]
                 ELSE work' = AfterFailure(left(TRUE), outcome)
              /\ lastOp' = [op |-> "return", arg |-> work.mode,
                            result |-> outcome.kind]
    /\ UNCHANGED <<storeVars, queueVars, scanVars, scene, ui, cache>>

\* _store_extracted_data: the next asset through
\* _create_database_asset_improved (an exception is logged and the asset
\* not counted); after the last one the worker function returns
\* assets_created.
Store ==
    /\ work.pc = "storing"
    /\ create_database_asset_improved(Head(work.pending), 1, "a.blend",
                                      work.file)
    /\ LET created == work.created + (assetSeq' - assetSeq)
       IN  IF Len(work.pending) > 1
           THEN work' = [work EXCEPT !.pending = Tail(@),
                                     !.created = created]
           ELSE work' = AfterSuccess(
                            [work EXCEPT !.pending = <<>>,
                                         !.created = created,
                                         !.temp = CleanUp(@, FALSE)],
                            created)
    /\ UNCHANGED <<queueVars, scanVars, scene, ui, cache>>

WorkNext == ProcessFile \/ Spawn \/ Return \/ Store

WorkSpec == WorkInit /\ [][WorkNext]_vars

(***************************************************************************)
(* The scan operator (src/operator.py): execute on the main thread, the    *)
(* scanning thread it starts, and the timer _check_scan_progress that the  *)
(* host calls on the main thread while it is registered.                   *)
(***************************************************************************)
MaxStarts == 2

\* The asset totals a scan may report
Totals == {0, 3}

\* queue_update(message, progress, is_complete, results) of the thread of
\* scan n: the dictionary put on scan_progress_queue.  results is the
\* total_assets of the results, None when no results are given.
Update(n, message, is_complete, results) ==
    [scan |-> n, message |-> message, is_complete |-> is_complete,
     results |-> results]

\* The updates the while loop of _check_scan_progress takes off the queue:
\* up to the first that is complete, at which it returns
Taken(q) ==
    IF \E k \in 1..Len(q) : q[k].is_complete
    THEN SubSeq(q, 1, CHOOSE k \in 1..Len(q) :
                          /\ q[k].is_complete
                          /\ \A j \in 1..(k - 1) : ~q[j].is_complete)
    ELSE q

\* return 0.2 whatever was taken
AlwaysRearms(taken) == TRUE

\* return None after an update that is complete, else return 0.2
Rearms(taken) == \A k \in 1..Len(taken) : ~taken[k].is_complete

\* props.total_assets_in_db after the updates: results.get('total_assets')
\* of each update that is complete and has results
TotalAfter(total, taken) ==
    LET ks == {k \in 1..Len(taken) :
                  taken[k].is_complete /\ taken[k].results # None}
    IN  IF ks = {} THEN total
        ELSE taken[CHOOSE k \in ks : \A j \in ks : j <= k].results.v

OperatorInit ==
    /\ packs = <<>>
    /\ packSeq = 0
    /\ assets = <<>>
    /\ assetSeq = 0
    /\ assetProps = {}
    /\ assetTags = {}
    /\ given = <<>>
    /\ queue = <<>>
    /\ queueSeq = 0
    /\ pc = [w \in Workers |-> "idle"]
    /\ item = [w \in Workers |-> 0]
    /\ held = [w \in Workers |-> 0]
    /\ lastOp = [op |-> "init", arg |-> NULL, result |-> NULL]
    /\ disk = NoDisk
    /\ scan = IdleScan
    /\ blend = NoBlend
    /\ data = NoData
    /\ scene = NoScene
    /\ work = NoWork
    /\ ui \in { [NoUi EXCEPT !.available = available] :
                   available \in BOOLEAN }
    /\ cache = NoCache

\* execute with no valid asset_pack_path: the status is set and nothing
\* else is touched
ExecuteInvalid ==
    /\ ui' = [ui EXCEPT !.scan_status = "Error: Invalid path"]
    /\ lastOp' = [op |-> "execute", arg |-> NULL, result |-> "CANCELLED"]
    /\ UNCHANGED <<storeVars, queueVars, scanVars, scene, work, cache>>

\* execute with a valid path: the timer registered is unregistered, the
\* queue is emptied, a thread is started and the timer of this scan is
\* registered
Execute ==
    /\ Len(ui.threads) < MaxStarts
    /\ ui' = [ui EXCEPT !.timer = Len(ui.threads) + 1,
                        !.queue = <<>>,
                        !.threads = Append(@, "started"),
                        !.scan_status = "Scanning started...",
                        !.applied = <<>>,
                        !.ended = Append(@, <<>>)]
    /\ lastOp' = [op |-> "execute", arg |-> Len(ui.threads) + 1,
                  result |-> "FINISHED"]
    /\ UNCHANGED <<storeVars, queueVars, scanVars, scene, work, cache>>

\* The thread of scan n, up to the call of scan_asset_pack_robust: without
\* a scanner, or with one that cannot be made, it puts its only update and
\* returns
ThreadBegin(n) ==
    /\ ui.threads[n] = "started"
    /\ \/ /\ ui.available
          /\ ui' = [ui EXCEPT
                       !.queue = Append(@, Update(n, "Initializing scanner...",
                                                  FALSE, None)),
                       !.threads[n] = "scanning"]
       \/ /\ ui.available
          /\ ui' = [ui EXCEPT
                       !.queue = Append(@, Update(n, "Scan failed",
                                                  TRUE, None)),
                       !.threads[n] = "done"]
       \/ /\ ~ui.available
          /\ ui' = [ui EXCEPT
                       !.queue = Append(@, Update(n,
                                     "Error: Scanner not available",
                                     TRUE, None)),
                       !.threads[n] = "done"]
    /\ lastOp' = [op |-> "thread", arg |-> n, result |-> NULL]
    /\ UNCHANGED <<storeVars, queueVars, scanVars, scene, work, cache>>

\* The thread of scan n, from the return of scan_asset_pack_robust: the
\* final update with the results, or the update of the except branch
ThreadEnd(n) ==
    /\ ui.threads[n] = "scanning"
    /\ \E update \in { Update(n, "Complete!", TRUE, Num(total)) :
                          total \in Totals }
                     \cup { Update(n, "Scan failed", TRUE, None) } :
           ui' = [ui EXCEPT !.queue = Append(@, update),
                            !.threads[n] = "done"]
    /\ lastOp' = [op |-> "thread", arg |-> n, result |-> NULL]
    /\ UNCHANGED <<storeVars, queueVars, scanVars, scene, work, cache>>

\* One call of the timer _check_scan_progress by the host
CheckScanProgress ==
    /\ ui.timer # 0
    /\ LET taken == Taken(ui.queue)
       IN  ui' = [ui EXCEPT
                     !.queue = SubSeq(@, Len(taken) + 1, Len(@)),
                     !.scan_status = IF taken = <<>> THEN @
                                     ELSE taken[Len(taken)].message,
                     !.total_assets_in_db = TotalAfter(@, taken),
                     !.applied = @ \o taken,
                     !.timer = IF Rearms(taken) THEN @ ELSE 0,
                     !.ended[ui.timer] = IF Rearms(taken) THEN @
                                         ELSE <<taken[Len(taken)]>>]
    /\ lastOp' = [op |-> "timer", arg |-> ui.timer, result |-> NULL]
    /\ UNCHANGED <<storeVars, queueVars, scanVars, scene, work, cache>>

OperatorNext ==
    \/ ExecuteInvalid
    \/ Execute
    \/ \E n \in 1..MaxStarts : n <= Len(ui.threads) /\ ThreadBegin(n)
    \/ \E n \in 1..MaxStarts : n <= Len(ui.threads) /\ ThreadEnd(n)
    \/ CheckScanProgress

OperatorSpec == OperatorInit /\ [][OperatorNext]_vars

(***************************************************************************)
(* The incremental strategy on the open file: main() of quick_scan mode,   *)
(* of single_collection mode for each collection enumerated, and of        *)
(* standalone mode, every invocation succeeding, next to the whole-file    *)
(* pass on the same file.                                                  *)
(***************************************************************************)

\* should_skip_collection of quick_scan mode: the names 'collection' and
\* 'scene collection' and those that hold one of 'rig', 'control', 'bone',
\* 'constraint', 'driver', 'meta'; no collection name of the model does.
quick_scan_should_skip_collection(collection) == collection.name \in {""}

RECURSIVE has_visual_objects_recursive(_), AnyHasVisualObjects(_)
\* A MESH object is linked to the collection or to one below it.
has_visual_objects_recursive(collection) ==
    \/ \E k \in DOMAIN blend.objects :
           /\ blend.objects[k].name \in collection.objects
           /\ blend.objects[k].type = "MESH"
    \/ AnyHasVisualObjects(ChildrenOf(collection))

AnyHasVisualObjects(collections) ==
    IF collections = <<>> THEN FALSE
    ELSE \/ has_visual_objects_recursive(Head(collections))
         \/ AnyHasVisualObjects(Tail(collections))

\* main() of quick_scan mode: the names of scan_data['collections']
quick_scan_main ==
    LET listed(collection) ==
            /\ ~ quick_scan_should_skip_collection(collection)
            /\ is_parent_collection(collection)
            /\ has_visual_objects_recursive(collection)
        collections == SelectSeq(blend.collections, listed)
    IN  [i \in DOMAIN collections |-> collections[i].name]

\* main() of single_collection mode for TARGET_COLLECTION, a collection of
\* the file: data['file_info']['collections']
single_collection_main(TARGET_COLLECTION) ==
    LET target_coll ==
            blend.collections[CHOOSE i \in DOMAIN blend.collections :
                                  blend.collections[i].name = TARGET_COLLECTION]
        visual_objects == get_all_collection_objects(target_coll)
        bounds == calculate_collection_bounds(visual_objects)
    IN  IF /\ SumOf(visual_objects, "polygons") > 0
           /\ Max3(bounds.dimensions[1], bounds.dimensions[2],
                   bounds.dimensions[3]) > 0
        THEN <<CollectionData(target_coll)>>
        ELSE <<>>

\* main() of standalone mode: data['file_info']['objects'], the objects of
\* the EXCLUDED_COLLECTIONS left out
standalone_main(EXCLUDED_COLLECTIONS) ==
    LET excluded == { i \in DOMAIN blend.collections :
                        \E k \in DOMAIN EXCLUDED_COLLECTIONS :
                            blend.collections[i].name = EXCLUDED_COLLECTIONS[k] }
        in_collections ==
            UNION { { get_all_collection_objects(blend.collections[i])[k].name :
                        k \in DOMAIN
                            get_all_collection_objects(blend.collections[i]) } :
                    i \in excluded }
        standalone(obj) ==
            LET bounds == calculate_object_bounds(obj)
            IN  /\ obj.name \notin in_collections
                /\ is_visual_object(obj)
                /\ ~ (users_collection(obj) > 1)
                /\ ~ should_skip_object_name(obj.name)
                /\ get_polygon_count(obj) > 0
                /\ Max3(bounds.dimensions[1], bounds.dimensions[2],
                        bounds.dimensions[3]) > 0
        objects == SelectSeq(blend.objects, standalone)
    IN  [i \in DOMAIN objects |-> ObjectData(objects[i])]

RECURSIVE EachCollection(_)
\* The loop over collections of _process_large_blend_file: what the
\* invocations hand to _store_extracted_data, one after the other
EachCollection(collections) ==
    IF collections = <<>> THEN <<>>
    ELSE single_collection_main(Head(collections))
            \o EachCollection(Tail(collections))

\* _process_large_blend_file with every invocation succeeding: a quick scan
\* that enumerates nothing leaves the file to the whole-file pass
large_file_main ==
    LET collections == quick_scan_main
    IN  IF collections = <<>> THEN full_file_main
        ELSE [ collections |-> EachCollection(collections),
               objects     |-> standalone_main(collections) ]

StrategyInit == ExtractInit

\* The same file through both strategies
RunBoth ==
    /\ data.pc = "none"
    /\ data' = [pc |-> "extracted twice",
                whole |-> full_file_main,
                incremental |-> large_file_main]
    /\ lastOp' = [op |-> "extract", arg |-> NULL, result |-> "success"]
    /\ UNCHANGED <<storeVars, queueVars, disk, scan, blend, scene, work, ui, cache>>

StrategyNext == RunBoth

StrategySpec == StrategyInit /\ [][StrategyNext]_vars

(***************************************************************************)
(* AssetCacheManager (src/properties.py).  The clock is in seconds; a list *)
(* of assets fetched from the store is known by the time it was fetched.   *)
(***************************************************************************)
max_age == 30

MaxTime == 60

Second == 10

\* f"{category or 'ALL'}_{quality or 'ALL'}_{max_complexity}"
get_cache_key(category, quality, max_complexity) ==
    << IF category = NULL THEN "ALL" ELSE category,
       IF quality = NULL THEN "ALL" ELSE quality,
       max_complexity >>

\* The filters the panel asks with
FilterCategories == {NULL, "props"}
FilterQualities == {NULL, "high"}

CacheKeys ==
    { get_cache_key(category, quality, 10) :
        category \in FilterCategories, quality \in FilterQualities }

\* cache_data[cache_key] = entry
WithEntry(cache_data, cache_key, entry) ==
    [k \in DOMAIN cache_data \cup {cache_key} |->
        IF k = cache_key THEN entry ELSE cache_data[k]]

\* is_cache_valid(): cache_valid and time.time() - cache_timestamp < max_age
is_cache_valid(c) ==
    /\ c.cache_valid
    /\ c.now - c.cache_timestamp < max_age

\* if self.is_cache_valid() and cache_key in self.cache_data
CacheHit(c, cache_key) ==
    /\ is_cache_valid(c)
    /\ cache_key \in DOMAIN c.cache_data

CacheInit ==
    /\ packs = <<>>
    /\ packSeq = 0
    /\ assets = <<>>
    /\ assetSeq = 0
    /\ assetProps = {}
    /\ assetTags = {}
    /\ given = <<>>
    /\ queue = <<>>
    /\ queueSeq = 0
    /\ pc = [w \in Workers |-> "idle"]
    /\ item = [w \in Workers |-> 0]
    /\ held = [w \in Workers |-> 0]
    /\ lastOp = [op |-> "init", arg |-> NULL, result |-> NULL]
    /\ disk = NoDisk
    /\ scan = IdleScan
    /\ blend = NoBlend
    /\ data = NoData
    /\ scene = NoScene
    /\ work = NoWork
    /\ ui = NoUi
    /\ cache = NoCache

\* get_filtered_assets(category, quality, max_complexity): the cached list
\* on a hit; else the list fast_asset_search gives now, which is cached, or
\* [] when the store raises
GetFilteredAssets ==
    /\ \E category \in FilterCategories, quality \in FilterQualities :
          LET cache_key == get_cache_key(category, quality, 10)
          IN  IF CacheHit(cache, cache_key)
              THEN /\ lastOp' = [op |-> "get_filtered_assets",
                                 arg |-> cache_key,
                                 result |->
                                     Num(cache.cache_data[cache_key].assets)]
                   /\ UNCHANGED cache
              ELSE \/ /\ cache' = [cache EXCEPT
                            !.cache_data =
                                WithEntry(@, cache_key,
                                          [assets |-> cache.now,
                                           timestamp |-> cache.now]),
                            !.cache_timestamp = cache.now,
                            !.cache_valid = TRUE]
                      /\ lastOp' = [op |-> "get_filtered_assets",
                                    arg |-> cache_key,
                                    result |-> Num(cache.now)]
                   \/ /\ cache' = [cache EXCEPT !.cache_valid = FALSE]
                      /\ lastOp' = [op |-> "get_filtered_assets",
                                    arg |-> cache_key, result |-> None]
    /\ UNCHANGED <<storeVars, queueVars, scanVars, scene, work, ui>>

\* invalidate_cache()
InvalidateCache ==
    /\ cache' = [cache EXCEPT !.cache_valid = FALSE, !.cache_data = <<>>]
    /\ lastOp' = [op |-> "invalidate_cache", arg |-> NULL, result |-> None]
    /\ UNCHANGED <<storeVars, queueVars, scanVars, scene, work, ui>>

\* Time passes.
Elapse ==
    /\ cache.now + Second <= MaxTime
    /\ cache' = [cache EXCEPT !.now = @ + Second]
    /\ lastOp' = [op |-> "elapse", arg |-> NULL, result |-> None]
    /\ UNCHANGED <<storeVars, queueVars, scanVars, scene, work, ui>>

CacheNext == GetFilteredAssets \/ InvalidateCache \/ Elapse

CacheSpec == CacheInit /\ [][CacheNext]_vars

(***************************************************************************)
(* Scan queue: the claims.                                                 *)
(***************************************************************************)
\* A queue item that may be retried: pending or failed, under the ceiling.
Pending(id) == queue[id].status = "pending"
UnderCeiling(id) == queue[id].retry_count < queue[id].max_retries

\* C1: dequeue exclusivity. No two workers hold the same queue item id at
\* once, each having got it from its own get_next_scan_item call.
C1_DequeueExclusive ==
    \A w1, w2 \in Workers :
        (w1 # w2 /\ held[w1] # 0) => held[w1] # held[w2]

\* C2: retry contract. A dequeueNext pass hands out again an item that was
\* handed out and failed with retries left: a pass never returns None while
\* such an item is in the queue.
C2_RetryableHandedOutAgain ==
    (lastOp.op = "dequeue" /\ lastOp.result = "None") =>
        ~ \E id \in QueueIds :
              /\ queue[id].status = "failed"
              /\ queue[id].started_at = "set"
              /\ UnderCeiling(id)

\* C3: retry ceiling. Under any sequence of enqueue, dequeueNext, completeItem
\* and failItem calls, retry_count <= max_retries for every queue item.
C3_RetryCeiling ==
    \A id \in QueueIds : queue[id].retry_count <= queue[id].max_retries

\* C4: dequeueNext(workerId). The call returns None iff no item is pending
\* under the retry ceiling; otherwise the item its SELECT fetches is such an
\* item of maximal priority, and its UPDATE sets exactly that item to
\* processing with assigned_worker = workerId and started_at set, leaving
\* every other column and every other queue item as it was.
C4_SelectsEligibleMaxPriority(w) ==
    (pc[w] = "idle" /\ pc'[w] = "selected") =>
        /\ item'[w] \in QueueIds
        /\ Pending(item'[w]) /\ UnderCeiling(item'[w])
        /\ \A other \in QueueIds :
              (Pending(other) /\ UnderCeiling(other)) =>
                  queue[other].priority <= queue[item'[w]].priority

C4_MarksExactlyThatItem(w) ==
    (pc[w] = "selected" /\ pc'[w] = "idle") =>
        /\ held'[w] = item[w]
        /\ DOMAIN queue' = DOMAIN queue
        /\ queue'[item[w]] = [queue[item[w]] EXCEPT !.status = "processing",
                                                     !.assigned_worker = w,
                                                     !.started_at = "set"]
        /\ \A other \in QueueIds \ {item[w]} : queue'[other] = queue[other]

C4_NoneIffNothingEligible ==
    /\ (lastOp'.op = "dequeue" /\ lastOp'.result = "None") =>
          /\ queue' = queue
          /\ ~ \E id \in QueueIds : Pending(id) /\ UnderCeiling(id)
    /\ lastOp'.op = "select" =>
          \E id \in QueueIds : Pending(id) /\ UnderCeiling(id)

C4_DequeueNext ==
    [][ /\ C4_NoneIffNothingEligible
        /\ \A w \in Workers :
              C4_SelectsEligibleMaxPriority(w) /\ C4_MarksExactlyThatItem(w)
      ]_vars

\* C4 witness: a worker holds the item it was handed, marked processing in
\* its name, while a pending item of lower priority is still queued.
C4_Witness ==
    \E w \in Workers :
        /\ held[w] # 0
        /\ queue[held[w]].status = "processing"
        /\ queue[held[w]].assigned_worker = w
        /\ \E other \in QueueIds :
              Pending(other) /\ queue[other].priority < queue[held[w]].priority

\* C5: enqueue is idempotent on the container path. No two queue items share
\* a path, and an enqueue of a path that already has an item, in whatever
\* status, leaves the whole queue unchanged.
C5_PathsUnique ==
    \A a, b \in QueueIds :
        queue[a].blend_file_path = queue[b].blend_file_path => a = b

C5_EnqueueIdempotent ==
    /\ [] C5_PathsUnique
    /\ [][ (lastOp'.op = "enqueue" /\ PathQueued(lastOp'.arg)) =>
              (queue' = queue /\ queueSeq' = queueSeq) ]_vars

\* C5 witness: the last call enqueued a path whose item had already failed,
\* and the item is still there with its failure recorded.
C5_Witness ==
    /\ lastOp.op = "enqueue"
    /\ \E id \in QueueIds :
          /\ queue[id].blend_file_path = lastOp.arg
          /\ queue[id].status = "failed"
          /\ queue[id].retry_count = 2


(***************************************************************************)
(* The store: the claims.                                                  *)
(***************************************************************************)
\* C6: create_asset_pack with a name that already exists fails with an
\* error the caller sees and leaves the store as it was: the pack of that
\* name keeps its id, path, version and description, and no pack row is
\* added.
C6_DuplicatePackRejected ==
    [][ (lastOp'.op = "createPack" /\ PackNamed(lastOp'.arg.name))
          => /\ lastOp'.result = "IntegrityError"
             /\ packs' = packs
             /\ packSeq' = packSeq
             /\ assets' = assets
             /\ assetProps' = assetProps
             /\ assetTags' = assetTags ]_vars

\* A call with the name of a pack whose path is another one has failed.
C6_Witness ==
    /\ lastOp.op = "createPack"
    /\ lastOp.result = "IntegrityError"
    /\ \E id \in PackIds :
          /\ packs[id].name = lastOp.arg.name
          /\ packs[id].path # lastOp.arg.path

\* A filter the caller supplied: an argument that is not None.
C7_Matches(row, f) ==
    /\ row.is_active = 1
    /\ f.category # NULL => row.category = f.category
    /\ f.style # NULL => row.primary_style = f.style
    /\ f.quality_tier # NULL => row.quality_tier = f.quality_tier
    /\ f.size_category # NULL => row.size_category = f.size_category
    /\ IsNumber(f.max_complexity) => row.complexity_score <= f.max_complexity.v
    /\ IsNumber(f.max_polygons) => row.polygon_count <= f.max_polygons.v
    /\ IsNumber(f.pack_id) => row.pack_id = f.pack_id.v

\* C7: a search returns exactly the first `limit` of the active assets that
\* satisfy every supplied filter (bounds of 0 included), in ascending order
\* of (complexity_score, polygon_count).
C7_SearchIsSortedPrefix ==
    lastOp.op = "search" =>
        LET f == lastOp.arg
            result == lastOp.result
            matching == {id \in AssetIds : C7_Matches(assets[id], f)}
            returned == {result[i].id : i \in DOMAIN result}
        IN  /\ Len(result) = IF f.limit < Cardinality(matching)
                             THEN f.limit ELSE Cardinality(matching)
            /\ returned \subseteq matching
            /\ Cardinality(returned) = Len(result)
            /\ \A i \in DOMAIN result : result[i].row = assets[result[i].id]
            /\ \A i, j \in DOMAIN result :
                  i < j => InOrder(result[i].id, result[j].id)
            /\ \A id \in returned, other \in matching \ returned :
                  InOrder(id, other)

\* width, height or depth as the claim wants it
C8_WellFormed(dim) ==
    IsNumber(dim) /\ dim.v >= 0 /\ dim.v <= 10000 * PerUnit

\* C8: create_asset_optimized called with a dimension that is not a number,
\* is negative or is above 10000 fails and stores no row, so width, height
\* and depth of every stored asset are within [0, 10000].
C8_MalformedDimensionsRejected ==
    /\ \A id \in AssetIds :
          /\ assets[id].width \in 0..(10000 * PerUnit)
          /\ assets[id].height \in 0..(10000 * PerUnit)
          /\ assets[id].depth \in 0..(10000 * PerUnit)
    /\ (lastOp.op = "createAsset" /\ "dimensions" \in DOMAIN lastOp.arg.props)
          => LET dimensions == lastOp.arg.props.dimensions
             IN  (\E i \in DOMAIN dimensions : ~ C8_WellFormed(dimensions[i]))
                    => lastOp.result # "ok"

\* What the orchestrator is to store for one extracted component.
C9_Expected(dim) == IF C8_WellFormed(dim) THEN dim.v ELSE 0

\* C9: for every extracted triple the orchestrator stores the record, with
\* each component that is below 0, above 10000 or not a number as 0 and
\* every other component as extracted.  (The one record not stored is a
\* collection whose name the pack already holds, whatever its dimensions.)
C9_OrchestratorClamps ==
    [][ (lastOp'.op = "storeAsset" /\ Len(lastOp'.arg.dimensions) = 3)
          => LET asset_data == lastOp'.arg
                 dimensions == asset_data.dimensions
             IN  IF /\ asset_data.type = "collection"
                    /\ AssetKeyTaken(asset_data.name, 1, asset_data.name)
                 THEN lastOp'.result = "IntegrityError" /\ assets' = assets
                 ELSE /\ lastOp'.result = "ok"
                      /\ assetSeq' = assetSeq + 1
                      /\ DOMAIN assets' = AssetIds \cup {assetSeq'}
                      /\ \A id \in AssetIds : assets'[id] = assets[id]
                      /\ assets'[assetSeq'].name = asset_data.name
                      /\ assets'[assetSeq'].width = C9_Expected(dimensions[1])
                      /\ assets'[assetSeq'].height = C9_Expected(dimensions[2])
                      /\ assets'[assetSeq'].depth = C9_Expected(dimensions[3])
      ]_vars

\* A triple with a component to clamp and a component to keep was stored.
C9_Witness ==
    /\ lastOp.op = "storeAsset"
    /\ lastOp.result = "ok"
    /\ Len(lastOp.arg.dimensions) = 3
    /\ \E i, j \in 1..3 :
          /\ ~ C8_WellFormed(lastOp.arg.dimensions[i])
          /\ C8_WellFormed(lastOp.arg.dimensions[j])
          /\ lastOp.arg.dimensions[j].v > 0
    /\ assets[assetSeq].width + assets[assetSeq].height
          + assets[assetSeq].depth > 0

\* A list of three numbers
C10_Triple(dimensions) ==
    Len(dimensions) = 3 /\ \A i \in 1..3 : IsNumber(dimensions[i])

\* C10: an asset created with the dimensions [w, h, d] is read back by a
\* search with dimensions [w, h, d], same values in the same order, and its
\* stored volume is w * h * d.
C10_DimensionsRoundTrip ==
    (lastOp.op = "search" /\ lastOp.arg = NoFilter) =>
        LET result == lastOp.result
        IN  /\ \A id \in AssetIds : \E i \in DOMAIN result : result[i].id = id
            /\ \A i \in DOMAIN result :
                  LET whd == given[result[i].id]
                  IN  C10_Triple(whd) =>
                        /\ result[i].dimensions
                              = <<whd[1].v, whd[2].v, whd[3].v>>
                        /\ result[i].row.volume
                              = whd[1].v * whd[2].v * whd[3].v

\* An asset of three different dimensions, none of them 0, was read back.
C10_Witness ==
    /\ lastOp.op = "search"
    /\ \E i \in DOMAIN lastOp.result :
          LET whd == given[lastOp.result[i].id]
          IN  /\ C10_Triple(whd)
              /\ whd[1] # whd[2] /\ whd[2] # whd[3] /\ whd[1] # whd[3]
              /\ lastOp.result[i].row.volume # 0


(***************************************************************************)
(* Scanning: the claims.                                                   *)
(***************************************************************************)
\* C11: a second scan without forceRescan of a pack already scanned and not
\* changed leaves the pack's asset count as the first scan reported it, and
\* no two asset rows have the same name, pack and resource (collection
\* assets and object assets alike).
C11_ScanIdempotent ==
    /\ \A i, j \in AssetIds :
          i # j => ~ /\ assets[i].name = assets[j].name
                     /\ assets[i].pack_id = assets[j].pack_id
                     /\ assets[i].collection_name = assets[j].collection_name
    /\ (scan.pc = "done" /\ ~ scan.force /\ scan.previous >= 0)
          => scan.summary.total_assets = scan.previous

C13_EveryFileCounted ==
    /\ scan.pc = "done"
          => /\ scan.summary.files_processed + scan.summary.files_failed
                   = scan.summary.files_queued
             /\ scan.summary.files_queued = Len(scan.files)
             /\ scan.attempted = [i \in 1..Len(scan.files) |-> scan.files[i].path]
    /\ scan.pc = "files"
          => /\ scan.processed + scan.failed = scan.file - 1
             /\ scan.file <= Len(scan.files) + 1

\* A scan of two files, the first of which failed, has returned its summary.
C13_Witness ==
    /\ scan.pc = "done"
    /\ Len(scan.files) = 2
    /\ ~ scan.files[1].ok
    /\ scan.summary.files_failed >= 1
    /\ scan.summary.files_processed >= 1


(***************************************************************************)
(* Extraction: the claims.                                                 *)
(***************************************************************************)
C14_Collection(name) ==
    CHOOSE c \in {blend.collections[i] : i \in DOMAIN blend.collections} :
        c.name = name

C14_Object(name) ==
    CHOOSE o \in {blend.objects[i] : i \in DOMAIN blend.objects} : o.name = name

RECURSIVE C14_Members(_)
\* The elements of a group: those linked to it or to a group nested in it.
C14_Members(name) ==
    C14_Collection(name).objects
        \cup UNION { C14_Members(child) : child \in C14_Collection(name).children }

C14_Nested(name) ==
    \E other \in CollectionNames : name \in C14_Collection(other).children

\* A visual element: a mesh with polygons and a size.
C14_Visual(name) ==
    /\ C14_Object(name).polygon_count > 0
    /\ \E i \in 1..3 : C14_Object(name).dimensions[i] > 0

\* A top-level group qualifies with a name that is no utility name and a
\* visual element among its elements.
C14_QualifyingGroup(name) ==
    /\ ~ C14_Nested(name)
    /\ name # "Backup"
    /\ \E o \in C14_Members(name) : C14_Visual(o)

\* A visual element qualifies with a name that is no rig-control name and
\* a link to at most one group.
C14_QualifyingElement(name) ==
    /\ C14_Visual(name)
    /\ name # "ctrl_rig"
    /\ Cardinality({c \in CollectionNames : name \in C14_Collection(c).objects}) <= 1

C14_Names(entries) == {entries[i].name : i \in DOMAIN entries}

C15_Extent(row) == <<row.width, row.height, row.depth>>

\* The tiers of C15, with the size category of the 2 x 1 x 1.5 asset left open.
C15_TiersWith(car_size) ==
    data.pc = "stored" =>
        \A id \in AssetIds :
            /\ (assets[id].polygon_count = 5000
                    /\ C15_Extent(assets[id]) = <<4 * PerUnit, 4 * PerUnit, 8 * PerUnit>>)
                  => /\ assets[id].quality_tier = "high"
                     /\ assets[id].size_category = "large"
            /\ (assets[id].polygon_count = 1200
                    /\ C15_Extent(assets[id]) = <<2 * PerUnit, PerUnit, 3>>)
                  => /\ assets[id].quality_tier = "medium"
                     /\ assets[id].size_category = car_size
            /\ assets[id].polygon_count = 80
                  => /\ assets[id].quality_tier = "low"
                     /\ (lastOp.op = "search" /\ lastOp.arg.max_polygons = Num(50))
                           => \A i \in DOMAIN lastOp.result :
                                 lastOp.result[i].id # id

\* C15 as stated: the asset with 5,000 polygons and extent 4 x 4 x 8 is high
\* and large, the asset with 1,200 polygons and extent 2 x 1 x 1.5 is medium
\* in quality and medium in size, the asset with 80 polygons is low and is
\* not returned by the search with maxPolygons = 50.
C15_TiersAsStated == C15_TiersWith("medium")

\* C15: the asset with 5,000 polygons and extent 4 x 4 x 8 is high and
\* large, the asset with 1,200 polygons and extent 2 x 1 x 1.5 is medium in
\* quality and large in size (its largest extent, 2, is not below 2), the
\* asset with 80 polygons is low and is not returned by the search with
\* maxPolygons = 50.
C15_Tiers == C15_TiersWith("large")

\* The three assets are stored and the search with maxPolygons = 50 was run.
C15_Witness ==
    /\ data.pc = "stored"
    /\ lastOp.op = "search"
    /\ \E id \in AssetIds :
          /\ assets[id].polygon_count = 5000
          /\ C15_Extent(assets[id]) = <<4 * PerUnit, 4 * PerUnit, 8 * PerUnit>>
    /\ \E id \in AssetIds :
          /\ assets[id].polygon_count = 1200
          /\ C15_Extent(assets[id]) = <<2 * PerUnit, PerUnit, 3>>
    /\ \E id \in AssetIds : assets[id].polygon_count = 80

C16_Rank(tier) ==
    IF tier = "low" THEN 0 ELSE IF tier = "medium" THEN 1
    ELSE IF tier = "high" THEN 2 ELSE IF tier = "ultra" THEN 3 ELSE -1

C16_Band(polygon_count) ==
    Cardinality({edge \in {500, 2000, 10000} : polygon_count >= edge})

\* C16: the quality tier does not go down as the polygon count goes up, in
\* the order low < medium < high < ultra, with the bands meeting at 500,
\* 2000 and 10000 and a count on an edge in the upper band.
C16_QualityMonotonic ==
    data.pc = "classified" =>
        /\ blend.polygon_count <= blend.more_polygons
              => C16_Rank(data.quality_tier) <= C16_Rank(data.more_quality)
        /\ C16_Rank(data.quality_tier) = C16_Band(blend.polygon_count)

\* Two counts on two edges were classified.
C16_Witness ==
    /\ data.pc = "classified"
    /\ blend.polygon_count = 500
    /\ blend.more_polygons = 2000
    /\ data.quality_tier = "medium"
    /\ data.more_quality = "high"

C17_Min(a, b) == IF a <= b THEN a ELSE b

C17_Base(polygon_count) ==
    IF polygon_count < 100 THEN 1 ELSE IF polygon_count < 500 THEN 3
    ELSE IF polygon_count < 2000 THEN 5 ELSE IF polygon_count < 10000 THEN 7
    ELSE 9

\* C17: the complexity score is within [0, 10] and is
\* min(base * min(1 + 0.1 * (objectCount - 1), 2.0), 10), base being 1, 3,
\* 5, 7, 9 by the band of the polygon count (scores and factors in tenths).
C17_ComplexityBounded ==
    data.pc = "classified" =>
        /\ data.complexity_score \in 0..100
        /\ data.complexity_score =
              C17_Min(C17_Base(blend.polygon_count)
                          * C17_Min(10 + (blend.object_count - 1), 20),
                      100)

\* A score was computed where the factor and the score are both capped.
C17_Witness ==
    /\ data.pc = "classified"
    /\ blend.object_count > 11
    /\ blend.polygon_count >= 2000
    /\ data.complexity_score = 100

(***************************************************************************)
(* Scene building: the claims.                                             *)
(***************************************************************************)

\* The k-th entry of the call is valid: it has a location of three
\* numbers, its record has an id, a name and a container path, and the
\* container file is on disk.
C18_Valid(k) ==
    LET asset == scene.call.selected_assets[k]
    IN  /\ k <= Len(scene.call.locations)
        /\ Len(scene.call.locations[k]) = 3
        /\ \A c \in 1..3 : scene.call.locations[k][c] # None
        /\ {"id", "name", "blend_file_path"} \subseteq DOMAIN asset
        /\ asset.blend_file_path \in DOMAIN scene.files

\* Where the groups hold an entry of the k-th asset of the call
C18_Grouped(k) ==
    { <<g, e>> \in (1..Len(scene.groups)) \X (1..MaxEntries + 1) :
         /\ e <= Len(scene.groups[g].entries)
         /\ scene.groups[g].entries[e].index = k - 1 }

\* The rotation the call gives for its k-th entry
C18_Rotation(k) ==
    IF k <= Len(scene.call.rotations) THEN scene.call.rotations[k]
    ELSE <<Num(0), Num(0), Num(0)>>

\* C18: once a call is grouped, an entry that is not valid is in no group
\* and gets no object in the scene, and every valid entry of the call is
\* in the groups once, under its own container path, with its own asset
\* record, location, rotation and index; the build runs to its end.
C18_InvalidDroppedValidGrouped ==
    scene.pc # "idle" =>
        \A k \in 1..Len(scene.call.selected_assets) :
            IF C18_Valid(k)
            THEN /\ Cardinality(C18_Grouped(k)) = 1
                 /\ \A at \in C18_Grouped(k) :
                      LET entry == scene.groups[at[1]].entries[at[2]]
                          asset == scene.call.selected_assets[k]
                      IN  /\ scene.groups[at[1]].blend_file =
                                 asset.blend_file_path
                          /\ entry.asset_data = asset
                          /\ entry.location = scene.call.locations[k]
                          /\ entry.rotation = C18_Rotation(k)
            ELSE /\ C18_Grouped(k) = {}
                 /\ \A p \in 1..Len(scene.placed) :
                        scene.placed[p].index # k - 1

\* A build that ended, of a call whose first entry is not valid and whose
\* second is, with an object in the scene for the second.
C18_Witness ==
    /\ scene.pc = "done"
    /\ Len(scene.call.selected_assets) = 2
    /\ ~C18_Valid(1)
    /\ C18_Valid(2)
    /\ \E p \in 1..Len(scene.placed) : scene.placed[p].index = 1

\* The entries the call was grouped into, each with its container path
C19_Entries ==
    { [blend_file |-> scene.groups[g].blend_file,
       entry |-> scene.groups[g].entries[e]] :
      <<g, e>> \in { at \in (1..Len(scene.groups)) \X (1..MaxEntries + 1) :
                        at[2] <= Len(scene.groups[at[1]].entries) } }

\* How many times the build opened blend_file
C19_Opens(blend_file) ==
    Cardinality({ o \in 1..Len(scene.opened) :
                     scene.opened[o] = blend_file })

\* C19: at the end of a build, each container path that a validated entry
\* refers to was opened exactly once, whether its entries name
\* collections, meshes or objects, or some of each.
C19_OneOpenPerFile ==
    scene.pc = "done" =>
        \A x \in C19_Entries : C19_Opens(x.blend_file) = 1

\* The resource of a validated entry resolved and loaded: its file could
\* be read and holds the collection it names or, when it names none, the
\* object it names or a mesh of its name.
C20_Resolved(x) ==
    LET file  == scene.files[x.blend_file]
        asset == x.entry.asset_data
    IN  /\ file.readable
        /\ IF asset.collection_name # NULL
           THEN asset.collection_name \in file.collections
           ELSE \/ /\ "object_name" \in DOMAIN asset
                   /\ asset.object_name \in file.objects
                \/ asset.name \in file.meshes

\* The objects the build put in the scene for a validated entry
C20_Placements(x) ==
    { p \in 1..Len(scene.placed) : scene.placed[p].index = x.entry.index }

\* C20: at the end of a build, each validated entry has exactly one object
\* in the scene, at the entry's location: an instance if its resource
\* resolved and loaded, else a cube carrying the entry's asset id and name.
C20_ExactlyOnePlacement ==
    scene.pc = "done" =>
        \A x \in C19_Entries :
            /\ Cardinality(C20_Placements(x)) = 1
            /\ \A p \in C20_Placements(x) :
                 /\ scene.placed[p].location = x.entry.location
                 /\ IF C20_Resolved(x)
                    THEN scene.placed[p].kind # "cube"
                    ELSE /\ scene.placed[p].kind = "cube"
                         /\ scene.placed[p].asset_id = x.entry.asset_data.id
                         /\ scene.placed[p].asset_name =
                                x.entry.asset_data.name

\* The objects of the scene that no build made
C21_Untouched(objects) == SelectSeq(objects, LAMBDA obj : obj.kind = "user")

\* C21: the step of a build that clears the scene leaves in it exactly the
\* objects that no build made, in their order: every mesh placement,
\* collection instance and fallback cube of earlier builds is gone and no
\* other object is.
C21_ClearsGeneratedOnly ==
    [][lastOp'.op = "buildScene" =>
           scene'.placed = C21_Untouched(scene.placed)]_vars

(***************************************************************************)
(* Scanning strategies and worker invocations: the claims.                 *)
(***************************************************************************)

\* C22: every container file that a scan has handled is represented by a
\* row of the scan queue, of the scanned pack, that has reached the status
\* completed or failed.
C22_ScannedFilesQueued ==
    \A k \in 1..Len(scan.attempted) :
        \E id \in QueueIds :
            /\ queue[id].pack_id = scan.pack_id
            /\ queue[id].blend_file_path \in
                   {scan.attempted[k], scan.files[k].relative}
            /\ queue[id].status \in {"completed", "failed"}

\* The elements that count for a stored group asset when rig controls are
\* left out: the visual elements of the group and of the groups nested in
\* it whose name is not a rig-control name (ctrl_rig starts with ctrl).
C30_Counted(name) ==
    SelectSeq(get_all_collection_objects(C14_Collection(name)),
              LAMBDA obj : obj.name # "ctrl_rig")

\* C30: an element with a rig-control name is stored as no asset and
\* counts for no stored group asset: the polygon count and the object
\* count of a stored group are those of its other visual elements.
C30_RigControlsExcluded ==
    \A id \in AssetIds :
        /\ assets[id].name # "ctrl_rig"
        /\ assets[id].collection_name # NULL =>
             /\ assets[id].polygon_count =
                    SumOf(C30_Counted(assets[id].collection_name), "polygons")
             /\ assets[id].object_count =
                    Len(C30_Counted(assets[id].collection_name))

\* The file at hand is above the threshold, its quick scan enumerated
\* groups, and _process_blend_file has returned.
C23_IncrementalDone ==
    /\ work.pc = "done"
    /\ work.size > LARGE_FILE_THRESHOLD
    /\ work.collections # <<>>

\* The places of the log with an invocation of the mode
C23_Of(mode) == {i \in 1..Len(work.log) : work.log[i].mode = mode}

\* The place of a group in the enumeration of the quick scan
C23_Place(collection_name) ==
    CHOOSE k \in 1..Len(work.collections) :
        work.collections[k] = collection_name

\* C23: a file that is not above the threshold gets exactly one full_file
\* invocation and no other; a file above it whose quick scan enumerated
\* groups gets one quick_scan, then single-group invocations in the order
\* of the enumeration, at least one for every enumerated group, then
\* exactly one standalone invocation.
C23_StrategyOrder ==
    /\ work.pc # "idle" /\ work.size <= LARGE_FILE_THRESHOLD =>
         /\ \A i \in 1..Len(work.log) : work.log[i].mode = "full_file"
         /\ Len(work.log) <= 1
         /\ work.pc = "done" => Len(work.log) = 1
    /\ C23_IncrementalDone =>
         /\ C23_Of("quick_scan") = {1}
         /\ C23_Of("standalone") = {Len(work.log)}
         /\ C23_Of("full_file") = {}
         /\ \A i, j \in C23_Of("single_collection") :
               i < j => C23_Place(work.log[i].collection)
                           <= C23_Place(work.log[j].collection)
         /\ \A k \in 1..Len(work.collections) :
               \E i \in C23_Of("single_collection") :
                   work.log[i].collection = work.collections[k]

\* The groups of the file at hand that an invocation extracted
C24_Extracted ==
    { work.log[i].collection :
        i \in { j \in C23_Of("single_collection") :
                   work.log[j].outcome = Success } }

\* The groups of the file at hand that are recorded as failed
C24_Failed == { work.failed[i] : i \in 1..Len(work.failed) }

\* C24: in incremental mode a group that fails is recorded as failed and
\* the run goes on: when the file is done every enumerated group was
\* either extracted or recorded as failed, the standalone pass was made
\* last, and the file counts as processed; and no step of the run removes
\* or changes an asset that is stored.
C24_GroupFailureContinues ==
    /\ [](C23_IncrementalDone =>
            /\ \A k \in 1..Len(work.collections) :
                  work.collections[k] \in C24_Extracted \cup C24_Failed
            /\ C24_Extracted \cap C24_Failed = {}
            /\ C23_Of("standalone") = {Len(work.log)}
            /\ work.result.status = "processed")
    /\ [][\A id \in AssetIds :
              id \in DOMAIN assets' /\ assets'[id] = assets[id]]_vars

\* The first of two groups failed, the second was extracted and stored,
\* and the standalone pass was made.
C24_Witness ==
    /\ C23_IncrementalDone
    /\ Len(work.collections) = 2
    /\ work.failed = <<work.collections[1]>>
    /\ work.collections[2] \in C24_Extracted
    /\ \E id \in AssetIds : assets[id].name = work.collections[2]

\* C25: for a file above the threshold whose quick scan failed or
\* enumerated no group, the invocations are the quick scan and then one
\* full_file run and no other, and the file is processed with the assets
\* that run stored, or failed if that run failed.
C25_FallbackToWholeFile ==
    (work.pc = "done" /\ work.size > LARGE_FILE_THRESHOLD
        /\ work.collections = <<>>) =>
        /\ Len(work.log) = 2
        /\ work.log[1].mode = "quick_scan"
        /\ work.log[2].mode = "full_file"
        /\ IF work.log[2].outcome = Success
           THEN work.result = [status |-> "processed",
                               assets |-> Cardinality(AssetIds)]
           ELSE /\ work.result.status = "failed"
                /\ AssetIds = {}

\* A quick scan that failed, and a whole-file run after it that stored
\* assets.
C25_Witness ==
    /\ work.pc = "done"
    /\ work.size > LARGE_FILE_THRESHOLD
    /\ Len(work.log) = 2
    /\ work.log[1].outcome # Success
    /\ work.log[2].outcome = Success
    /\ work.result.assets = 2

\* C26: the invocations for one group are at most three, one after the
\* other; one follows another only if that one failed with a transient
\* error; and no full_file run is made once groups are enumerated.
C26_RetryPolicy ==
    /\ \A i \in C23_Of("single_collection") :
          /\ work.log[i].attempt <= 2
          /\ Cardinality({ j \in C23_Of("single_collection") :
                 work.log[j].collection = work.log[i].collection }) <= 3
          /\ (i < Len(work.log)
                /\ work.log[i + 1].collection = work.log[i].collection) =>
                /\ work.log[i].outcome # Success
                /\ work.log[i].outcome.transient
                /\ work.log[i + 1].attempt = work.log[i].attempt + 1
          /\ work.log[i].attempt > 0 =>
                work.log[i - 1].collection = work.log[i].collection
    /\ work.collections # <<>> => C23_Of("full_file") = {}

\* A group that was attempted three times, failing with a transient error
\* each time, after which the run went on to the standalone pass.
C26_Witness ==
    /\ C23_IncrementalDone
    /\ Len(work.collections) = 1
    /\ Len(work.log) = 5
    /\ \A i \in 2..4 : work.log[i].outcome.transient
    /\ work.failed = work.collections

\* C27: assets are stored only by an invocation whose subprocess exited
\* with code 0 and left a result with 'success' and no 'error'; an
\* invocation that ends in any other way stores nothing and raises, which
\* its caller takes as a failure.
C27_FailureStoresNothing ==
    [][/\ AssetIds' # AssetIds =>
            /\ work.pc = "storing"
            /\ work.log[Len(work.log)].outcome = Success
       /\ (lastOp'.op = "return" /\ lastOp'.result # "success") =>
            /\ work'.pc # "storing"
            /\ assets' = assets
            /\ work' = AfterFailure(
                   [work EXCEPT !.temp = {}, !.log = work'.log],
                   work'.log[Len(work'.log)].outcome)]_vars

\* A whole-file run that left a result without 'success': the file failed
\* and nothing is stored.
C27_Witness ==
    /\ work.pc = "done"
    /\ Len(work.log) = 1
    /\ work.log[1].outcome.kind = "no_success"
    /\ work.result.status = "failed"
    /\ AssetIds = {}

C29_ValidatedBeforeSpawn ==
    /\ work.pc = "running" => work.validated
    /\ \A i \in 1..Len(work.log) : work.log[i].validated

(***************************************************************************)
(* Classification of names: the claims.                                    *)
(***************************************************************************)

\* The two characters are the same letter whatever their case.
SameLetter(c, d) == LowerChar(c) = LowerChar(d)

\* keyword is a case-insensitive substring of name
PartOfIgnoringCase(keyword, name) ==
    \E i \in 0..(Len(name) - Len(keyword)) :
        \A j \in 1..Len(keyword) : SameLetter(keyword[j], name[i + j])

\* The patterns of which a keyword is a case-insensitive substring of name.
Matching(name, patterns) ==
    { i \in DOMAIN patterns :
        \E k \in DOMAIN patterns[i].keywords :
            PartOfIgnoringCase(patterns[i].keywords[k], name) }

\* The first of the matching patterns of highest confidence.
FirstOfHighest(name, patterns) ==
    CHOOSE i \in Matching(name, patterns) :
        \A j \in Matching(name, patterns) :
            \/ patterns[j].confidence < patterns[i].confidence
            \/ patterns[j].confidence = patterns[i].confidence /\ i <= j

\* C31: classify_name returns None exactly when no keyword of any pattern
\* is a case-insensitive substring of the name; otherwise it returns the
\* matching pattern of highest confidence, and of several of the same
\* highest confidence the first in the order of the patterns.
C31_HighestConfidenceFirstSeen ==
    data.pc = "named" =>
        /\ data.best_match = NULL <=> Matching(blend.name, blend.patterns) = {}
        /\ Matching(blend.name, blend.patterns) # {} =>
               data.best_match =
                   blend.patterns[FirstOfHighest(blend.name,
                                                 blend.patterns)].pattern_name

(***************************************************************************)
(* Batch loading: the claims.                                              *)
(***************************************************************************)

\* The entries of the build that name a collection their readable file has.
NeededCollections ==
    UNION { { [blend_file |-> scene.groups[g].blend_file,
               name |-> Field(scene.groups[g].entries[k].asset_data,
                              "collection_name")] :
                k \in 1..Len(scene.groups[g].entries) } :
            g \in 1..Len(scene.groups) } \cap
    UNION { { [blend_file |-> path, name |-> name] :
                name \in scene.files[path].collections } :
            path \in {p \in DOMAIN scene.files : scene.files[p].readable} }

\* The number of times the list of the request holds the name.
TimesIn(names, name) == Cardinality({k \in 1..Len(names) : names[k] = name})

\* C32: the list of names handed to a batch load of a file holds each
\* needed name exactly once, also when several entries ask for the same
\* collection, object or mesh: no name is in a list twice, and when the
\* build is complete each collection an entry needs of its file was in the
\* list of a load of that file.
C32_EachResourceRequestedOnce ==
    /\ \A r \in 1..Len(scene.requested) :
           \A name \in {"House", "Tree", "Lamp", "Crate"} :
               TimesIn(scene.requested[r].names, name) <= 1
    /\ scene.pc = "done" =>
           \A needed \in NeededCollections :
               \E r \in 1..Len(scene.requested) :
                   /\ scene.requested[r].blend_file = needed.blend_file
                   /\ scene.requested[r].kind = "collections"
                   /\ TimesIn(scene.requested[r].names, needed.name) = 1

\* The selected asset the object was made for.
AssetOf(obj) == scene.call.selected_assets[obj.index + 1]

\* C33: an entry that names a collection gets an instance of a collection
\* only if its own .blend file holds the collection and was loaded in this
\* call; if the file lacks it the entry gets a fallback cube, whatever
\* collection of that name bpy.data holds already.
C33_InstanceOnlyFromOwnFile ==
    \A k \in 1..Len(scene.placed) :
        scene.placed[k].kind = "collection" =>
            LET asset_data == AssetOf(scene.placed[k])
            IN  /\ asset_data.blend_file_path \in
                       {scene.opened[o] : o \in 1..Len(scene.opened)}
                /\ scene.files[asset_data.blend_file_path].readable
                /\ asset_data.collection_name \in
                       scene.files[asset_data.blend_file_path].collections

(***************************************************************************)
(* Matching of mesh names: the claims.                                     *)
(***************************************************************************)

\* The name without its DATA_ prefix, if it has one.
PrefixStripped(mesh_name) ==
    IF mesh_name # <<>> /\ mesh_name[1] = "DATA_" THEN Tail(mesh_name)
    ELSE mesh_name

\* The candidates each of the four strategies accepts, in priority order:
\* the same name; a name that contains the asset name; a name the asset
\* name contains; a name that is the asset name once its prefix is
\* stripped.  Only the first is sensitive to case.
Candidates(strategy) ==
    { mesh_name \in { blend.available_meshes[k] :
                          k \in 1..Len(blend.available_meshes) } :
        CASE strategy = 1 -> mesh_name = blend.asset_name
          [] strategy = 2 -> PartOfIgnoringCase(blend.asset_name, mesh_name)
          [] strategy = 3 -> PartOfIgnoringCase(mesh_name, blend.asset_name)
          [] strategy = 4 ->
                 /\ Len(PrefixStripped(mesh_name)) = Len(blend.asset_name)
                 /\ PartOfIgnoringCase(PrefixStripped(mesh_name),
                                       blend.asset_name) }

\* C34: the mesh selected for an asset is an exact match if there is one,
\* else a mesh whose name contains the asset name, else a mesh whose name
\* the asset name contains, else a mesh whose prefix-stripped name is the
\* asset name whatever the case; no mesh is selected exactly when none of
\* the four strategies accepts a mesh.
C34_MatchByPriority ==
    data.pc = "matched" =>
        /\ data.matching_meshes = <<>> <=>
               \A strategy \in 1..4 : Candidates(strategy) = {}
        /\ \A strategy \in 1..4 :
               /\ Candidates(strategy) # {}
               /\ \A earlier \in 1..(strategy - 1) : Candidates(earlier) = {}
               => /\ data.matching_meshes # <<>>
                  /\ data.matching_meshes[1] \in Candidates(strategy)

(***************************************************************************)
(* The scan operator: the claims.                                          *)
(***************************************************************************)

\* The updates a step took off the head of the queue.
TakenBy(before, after) ==
    SubSeq(before.queue, 1, Len(before.queue) - Len(after.queue))

C36_PollEndsOnOwnScan ==
    \A n \in 1..Len(ui.ended) :
        ui.ended[n] # <<>> =>
            /\ ui.ended[n][1].scan = n
            /\ ui.ended[n][1].is_complete

(***************************************************************************)
(* Strategies: what a file counts as, and what the strategies store.       *)
(***************************************************************************)

\* The quick scan of a large file succeeded and enumerated collections,
\* every collection is in failed_collections and the standalone pass, the
\* last invocation, failed too.
NoExtractionSucceeded ==
    /\ work.pc = "done"
    /\ Len(work.log) >= 2
    /\ work.log[1].mode = "quick_scan"
    /\ work.log[1].outcome = Success
    /\ work.collections # <<>>
    /\ Len(work.failed) = Len(work.collections)
    /\ work.log[Len(work.log)].mode = "standalone"
    /\ \A i \in 2..Len(work.log) : work.log[i].outcome # Success

\* C37: a large file whose quick scan succeeds but whose every collection
\* invocation and standalone pass fail is counted as failed, not as
\* processed: _process_blend_file raises for it, which is what
\* scan_asset_pack_robust counts in files_failed.
C37_NothingExtractedCountsFailed ==
    NoExtractionSucceeded => work.result.status = "failed"

\* What the store keeps of the assets a strategy extracted: name, kind and
\* geometry counters of each.
AssetsOf(file_info) ==
    { [name |-> a.name, type |-> a.type, polygon_count |-> a.polygon_count,
       vertex_count |-> a.vertex_count, object_count |-> a.object_count] :
        a \in { file_info.collections[i] : i \in DOMAIN file_info.collections } }
    \cup
    { [name |-> a.name, type |-> a.type, polygon_count |-> a.polygon_count,
       vertex_count |-> a.vertex_count, object_count |-> 1] :
        a \in { file_info.objects[i] : i \in DOMAIN file_info.objects } }

\* C38: for the same file, with every invocation succeeding, extraction
\* collection by collection yields the same assets (names, kinds, geometry
\* counters) as the single whole-file pass, whatever the collections are
\* named.
C38_StrategiesAgree ==
    data.pc = "extracted twice" =>
        AssetsOf(data.incremental) = AssetsOf(data.whole)

(***************************************************************************)
(* The asset cache: the claims.                                            *)
(***************************************************************************)

\* C39: whatever get_filtered_assets and invalidate_cache calls came
\* before, with whatever filters, the list get_filtered_assets returns for
\* a key was fetched from the store no more than max_age (30 s) earlier.
C39_NeverOlderThanMaxAge ==
    /\ lastOp.op = "get_filtered_assets"
    /\ lastOp.result # None
    => cache.now - lastOp.result.v <= max_age

(***************************************************************************)
(* Scene building on invalid input: the claims.                            *)
(***************************************************************************)

\* C40: a call of the builder with instructions that are missing, not a
\* mapping, without 'locations' or without selected assets returns without
\* error and leaves the objects of the scene as they were.
C40_InvalidInputChangesNothing ==
    [][(lastOp'.op = "buildScene" /\ lastOp'.result = "returned early")
           => scene'.placed = scene.placed]_vars

=============================================================================
